---- MODULE Spec2Model ----
(***************************************************************************)
(* AutoCert: the install command line (cmd/install.go), the single-domain  *)
(* and multi-domain certificate managers (internal/cert) and the           *)
(* certificate store they write.                                           *)
(*                                                                         *)
(* Strings are sequences of one-character strings, so that the string      *)
(* functions of the code (HasPrefix, Contains, TrimSpace, Split) are       *)
(* computed, not assumed.  Time is counted in days.                        *)
(***************************************************************************)
EXTENDS Integers, Sequences, FiniteSets, TLC

(***************************************************************************)
(* Bounds of the model                                                     *)
(***************************************************************************)
MaxRawLen == 4      \* longest raw --domain / --domains value of SpecParse
MaxNow == 90        \* the clock stops advancing once it passed this day
MaxKeys == 3        \* keys rsa.GenerateKey can tell apart per directory
MaxConfLines == 6   \* most lines of the nginx files of SpecNginx taken together
MaxCronLines == 4   \* most lines of the crontab of SpecCron
MaxQueryLen == 6    \* most characters of the task query output of SpecWindows

(***************************************************************************)
(* Program constants                                                       *)
(***************************************************************************)
ValidityDays == 90          \* NotAfter = now + 90 days
RenewThresholdDays == 30    \* Renew re-issues at 30 days or less
MinWildcardLen == 4         \* len(domain) < 4 is an invalid wildcard
ModeKey == 384              \* 0600
ModeDomainsList == 420      \* 0644
ModeCreate == 438           \* 0666, the mode os.Create asks for

\* ChallengeType (iota)
ChallengeWebroot == 0
ChallengeStandalone == 1
ChallengeDNS == 2
ChallengeTypes == {ChallengeWebroot, ChallengeStandalone, ChallengeDNS}

\* WebServerType (iota)
WebServerNginx == 0
WebServerApache == 1
WebServerIIS == 2
WebServerTypes == {WebServerNginx, WebServerApache, WebServerIIS}

(***************************************************************************)
(* strings package, on sequences of characters                             *)
(***************************************************************************)
\* strings.HasPrefix
HasPrefix(s, p) ==
    /\ Len(s) >= Len(p)
    /\ SubSeq(s, 1, Len(p)) = p

\* strings.Contains
Contains(s, sub) ==
    \E i \in 1..(Len(s) - Len(sub) + 1) : SubSeq(s, i, i + Len(sub) - 1) = sub

\* unicode.IsSpace restricted to the characters of the model
IsSpace(c) == c \in {" ", "\t"}

RECURSIVE TrimLeft(_)
TrimLeft(s) ==
    IF s # <<>> /\ IsSpace(Head(s)) THEN TrimLeft(Tail(s)) ELSE s

RECURSIVE TrimRight(_)
TrimRight(s) ==
    IF s # <<>> /\ IsSpace(s[Len(s)]) THEN TrimRight(SubSeq(s, 1, Len(s) - 1)) ELSE s

\* strings.TrimSpace
TrimSpace(s) == TrimRight(TrimLeft(s))

\* strings.Split(s, sep) for a one-character separator: always at least one
\* field, empty fields are kept
RECURSIVE SplitFrom(_, _, _)
SplitFrom(s, sep, cur) ==
    IF s = <<>> THEN <<cur>>
    ELSE IF Head(s) = sep THEN <<cur>> \o SplitFrom(Tail(s), sep, <<>>)
    ELSE SplitFrom(Tail(s), sep, Append(cur, Head(s)))

Split(s, sep) == SplitFrom(s, sep, <<>>)

\* strings.Join
RECURSIVE Join(_, _)
Join(list, sep) ==
    IF list = <<>> THEN <<>>
    ELSE IF Len(list) = 1 THEN list[1]
    ELSE list[1] \o sep \o Join(Tail(list), sep)

WildcardPrefix == <<"*", ".">>
SanSuffix == <<"_", "s", "a", "n">>

(***************************************************************************)
(* cmd/install.go: domain parsing and flag validation                      *)
(***************************************************************************)
NoError == "nil"

\* validateDomainName: the reason it rejects the domain, or NoError
validateDomainName(domain) ==
    IF Len(domain) = 0 THEN "EmptyDomain"
    ELSE IF HasPrefix(domain, WildcardPrefix) /\ Len(domain) < MinWildcardLen
        THEN "InvalidWildcardFormat"
    ELSE IF HasPrefix(domain, WildcardPrefix)
            /\ Contains(SubSeq(domain, 3, Len(domain)), <<"*">>)
        THEN "WildcardNotOnlyLeading"
    ELSE IF Contains(domain, <<" ">>) THEN "ContainsSpace"
    ELSE NoError

\* the first error of the validation loop of parseDomains over the list
RECURSIVE validateList(_)
validateList(list) ==
    IF list = <<>> THEN NoError
    ELSE IF Head(list) = <<>> THEN "EmptyDomain"
    ELSE IF validateDomainName(Head(list)) # NoError THEN "MalformedDomain"
    ELSE validateList(Tail(list))

\* the domain list parseDomains builds before it validates it
domainListOf(flags) ==
    IF flags.domains # <<>>
        THEN [i \in 1..Len(Split(flags.domains, ",")) |->
                 TrimSpace(Split(flags.domains, ",")[i])]
    ELSE IF flags.domain # <<>> THEN <<TrimSpace(flags.domain)>>
    ELSE <<>>

\* parseDomains: the error and the domain list (empty on error)
parseDomains(flags) ==
    IF flags.domains = <<>> /\ flags.domain = <<>>
        THEN [err |-> "NoDomainGiven", list |-> <<>>]
    ELSE IF validateList(domainListOf(flags)) # NoError
        THEN [err |-> validateList(domainListOf(flags)), list |-> <<>>]
    ELSE [err |-> NoError, list |-> domainListOf(flags)]

\* the hasWildcard loops of validateInstallFlags and installMultiDomain
hasWildcardIn(domainList) ==
    \E i \in 1..Len(domainList) : HasPrefix(domainList[i], WildcardPrefix)

BoolCount(b) == IF b THEN 1 ELSE 0

\* challengeCount of validateInstallFlags
challengeCount(flags) ==
    BoolCount(flags.standalone) + BoolCount(flags.webroot # <<>>)
        + BoolCount(flags.dns)

\* count of validateInstallFlags
webServerCount(flags) ==
    BoolCount(flags.nginx) + BoolCount(flags.apache) + BoolCount(flags.iis)

\* validateInstallFlags without its wildcard check
validateInstallFlags_NoWildcardCheck(flags, domainList) ==
    IF ~flags.nginx /\ ~flags.apache /\ ~flags.iis THEN "NoWebServer"
    ELSE IF webServerCount(flags) > 1 THEN "MultipleWebServers"
    ELSE IF challengeCount(flags) > 1 THEN "InvalidChallengeConfiguration"
    ELSE NoError

\* validateInstallFlags that lets two mode flags pass
validateInstallFlags_TwoModesPass(flags, domainList) ==
    IF ~flags.nginx /\ ~flags.apache /\ ~flags.iis THEN "NoWebServer"
    ELSE IF webServerCount(flags) > 1 THEN "MultipleWebServers"
    ELSE IF hasWildcardIn(domainList) /\ ~flags.dns THEN "WildcardRequiresDNS"
    ELSE IF challengeCount(flags) > 2 THEN "InvalidChallengeConfiguration"
    ELSE NoError

\* validateInstallFlags: its error, or NoError
validateInstallFlags(flags, domainList) ==
    IF ~flags.nginx /\ ~flags.apache /\ ~flags.iis THEN "NoWebServer"
    ELSE IF webServerCount(flags) > 1 THEN "MultipleWebServers"
    ELSE IF hasWildcardIn(domainList) /\ ~flags.dns THEN "WildcardRequiresDNS"
    ELSE IF challengeCount(flags) > 1 THEN "InvalidChallengeConfiguration"
    ELSE NoError


(***************************************************************************)
(* The state                                                               *)
(***************************************************************************)
VARIABLES
    store,       \* the certificate store: directory name -> file name -> file
    now,         \* the wall clock, in days
    umask,       \* the process umask
    cli,         \* the flags of the install command being run, or NoCli
    mgr,         \* the manager object, or NoMgr
    op,          \* the public operation running or last run
    pc,          \* where the running operation stands ("idle": none running)
    result,      \* the error the last operation returned
    privateKey,  \* local of Install
    csr,         \* local of Install
    cert,        \* local of Install
    calls,       \* how often the operation entered Install / asked for a certificate
    info,        \* what the last GetCertInfo returned
    parsed,      \* what parseDomains returned to the command
    atEntry,     \* what the running Install found when it was called
    config,      \* the lines of an Nginx site config file
    enabled,     \* what IsSSLEnabled returned for it
    crontab,     \* the crontab of the user the scheduler runs as
    cronOp,      \* the last call of the Linux scheduler and what it returned
    query,       \* what schtasks /query printed, or its failure
    listed,      \* what WindowsScheduler.List returned
    archive,     \* the backup archive file at hand
    otherFiles,  \* the files of the machine outside the domain directories
    backupOp,    \* the last call of the backup manager and what it returned
    race         \* two Install invocations running side by side

vars == <<store, now, umask, cli, mgr, op, pc, result, privateKey, csr, cert,
          calls, info, parsed, atEntry, config, enabled, crontab, cronOp,
          query, listed, archive, otherFiles, backupOp, race>>

\* the variables of the Nginx configurator
nginxVars == <<config, enabled>>

\* the variables of the Linux scheduler
windowsVars == <<query, listed>>

\* the variables of the backup manager
backupVars == <<archive, otherFiles, backupOp>>
schedulerVars == <<crontab, cronOp, windowsVars>>

NoCli == [set |-> FALSE]
NoMgr == [kind |-> "nil"]
NoKey == <<>>
NoCSR == [set |-> FALSE]
NoCert == [der |-> "none"]
NoInfo == [set |-> FALSE]
NoParse == [err |-> "none", list |-> <<>>]
NoCalls == [install |-> 0, ca |-> 0]
NoEntry == [rerun |-> FALSE, files |-> {}]
NoConfig == [files |-> <<>>, domain |-> <<>>]
NoAnswer == [set |-> FALSE]
NoCrontab == [exists |-> FALSE, text |-> <<>>]
NoCronOp == [op |-> "none"]
NoQuery == [err |-> FALSE, output |-> <<>>]
NoList == [set |-> FALSE]
NoArchive == [exists |-> FALSE]
NoBackupOp == [op |-> "none"]

\* the invocations of Install that run side by side, none of them called yet
RaceProcs == {1, 2}
RaceIdle ==
    [p \in RaceProcs |->
        [pc |-> "idle", privateKey |-> <<>>, csr |-> [set |-> FALSE],
         cert |-> [der |-> "none"], result |-> "none"]]

KeyFile == "key.pem"
CertFile == "cert.pem"
ChainFile == "chain.pem"
DomainsFile == "domains.txt"

(***************************************************************************)
(* File system                                                             *)
(***************************************************************************)
EmptyData == [kind |-> "empty"]
TextData(t) == [kind |-> "text", text |-> t]

\* pem.Encode: one PEM block of the given type around the DER bytes
pemEncode(type, bytes) == [kind |-> "pem", type |-> type, bytes |-> bytes]

\* pem.Decode: the first PEM block of the data, whatever its type, or nil
pemDecode(data) ==
    IF data.kind = "pem" THEN [nil |-> FALSE, type |-> data.type, bytes |-> data.bytes]
    ELSE [nil |-> TRUE]

\* x509.MarshalPKCS1PrivateKey
MarshalPKCS1PrivateKey(key) == [der |-> "rsa", key |-> key]

\* x509.ParseCertificate: the bytes must be the DER of a certificate
ParseCertificate(bytes) ==
    IF bytes.der = "cert" THEN [err |-> FALSE, cert |-> bytes] ELSE [err |-> TRUE]

\* one permission bit of a &^ b, for each of the nine bits
RECURSIVE AndNot(_, _, _)
AndNot(a, b, bits) ==
    IF bits = 0 THEN 0
    ELSE (IF a % 2 = 1 /\ b % 2 = 0 THEN 1 ELSE 0)
             + 2 * AndNot(a \div 2, b \div 2, bits - 1)

DirExists(st, dir) == dir \in DOMAIN st
FileExists(st, dir, name) == DirExists(st, dir) /\ name \in DOMAIN st[dir]

\* os.MkdirAll: nothing changes when the directory is there
MkdirAll(st, dir) ==
    IF DirExists(st, dir) THEN st
    ELSE [d \in DOMAIN st \cup {dir} |-> IF d = dir THEN <<>> ELSE st[d]]

PutFile(st, dir, name, file) ==
    [st EXCEPT ![dir] =
        [n \in DOMAIN st[dir] \cup {name} |-> IF n = name THEN file ELSE st[dir][n]]]

\* os.Create / the open of os.WriteFile: the file is truncated and keeps its
\* mode when it exists, and is created with perm &^ umask when it does not
OpenTrunc(st, dir, name, perm, mask) ==
    PutFile(st, dir, name,
        [data |-> EmptyData,
         mode |-> IF FileExists(st, dir, name) THEN st[dir][name].mode
                  ELSE AndNot(perm, mask, 9)])

WriteData(st, dir, name, data) ==
    PutFile(st, dir, name, [data |-> data, mode |-> st[dir][name].mode])

\* os.Chmod
Chmod(st, dir, name, mode) ==
    PutFile(st, dir, name, [data |-> st[dir][name].data, mode |-> mode])

(***************************************************************************)
(* internal/cert: the managers                                             *)
(***************************************************************************)
\* NewManager
NewManagerObj(domain) ==
    [kind |-> "single", domains |-> <<domain>>,
     challengeType |-> ChallengeWebroot, webrootPath |-> <<>>,
     webServerType |-> WebServerNginx]

\* NewMultiDomainManager: nil for an empty list
NewMultiDomainManagerObj(domainList) ==
    IF Len(domainList) = 0 THEN NoMgr
    ELSE [kind |-> "multi", domains |-> domainList,
          challengeType |-> ChallengeWebroot, webrootPath |-> <<>>,
          webServerType |-> WebServerNginx]

\* Manager.domain / MultiDomainManager.primaryDomain
primaryDomain(m) == m.domains[1]

\* the public methods each manager type has
Methods(kind) ==
    IF kind = "single"
        THEN {"SetChallengeType", "SetWebrootPath", "SetWebServer",
              "Install", "Renew", "GetCertInfo"}
    ELSE IF kind = "multi"
        THEN {"SetChallengeType", "SetWebrootPath", "SetWebServer", "Install"}
    ELSE {}

\* MultiDomainManager.hasWildcardDomain
hasWildcardDomain(m) ==
    \E i \in 1..Len(m.domains) : HasPrefix(m.domains[i], WildcardPrefix)

\* the directory of the store the manager's paths lie in
dirName(m) ==
    IF m.kind = "multi" /\ Len(m.domains) > 1
        THEN primaryDomain(m) \o SanSuffix
    ELSE primaryDomain(m)

getCertPath(m) == <<dirName(m), CertFile>>
getKeyPath(m) == <<dirName(m), KeyFile>>
getChainPath(m) == <<dirName(m), ChainFile>>
getDomainsListPath(m) == <<dirName(m), DomainsFile>>

\* MultiDomainManager.Install without its check
installRejectsWildcard_Never(m) == FALSE

\* the check at the head of MultiDomainManager.Install; Manager.Install has none
installRejectsWildcard(m) ==
    /\ m.kind = "multi"
    /\ hasWildcardDomain(m)
    /\ m.challengeType # ChallengeDNS

\* the test of Renew with >= for >
notYetDue_Inclusive(expiry, t) == expiry - t >= RenewThresholdDays

\* time.Until(expiry) > 30*24*time.Hour
notYetDue(expiry, t) == expiry - t > RenewThresholdDays

\* GetCertInfo without the os.Stat test: a missing file is then a failed read
GetCertInfoOf_NoStat(m, st, t) ==
    IF ~FileExists(st, getCertPath(m)[1], CertFile)
        THEN [err |-> "CertificateUnreadable"]
    ELSE IF pemDecode(st[getCertPath(m)[1]][CertFile].data).nil
        THEN [err |-> "CertificateUnreadable"]
    ELSE IF ParseCertificate(pemDecode(st[getCertPath(m)[1]][CertFile].data).bytes).err
        THEN [err |-> "CertificateParseError"]
    ELSE [err |-> NoError,
          Domain |-> primaryDomain(m),
          CertPath |-> getCertPath(m),
          KeyPath |-> getKeyPath(m),
          ChainPath |-> getChainPath(m),
          ExpiryDate |->
              ParseCertificate(pemDecode(st[getCertPath(m)[1]][CertFile].data).bytes).cert.notAfter,
          IsValid |-> t <
              ParseCertificate(pemDecode(st[getCertPath(m)[1]][CertFile].data).bytes).cert.notAfter]

\* GetCertInfo with a validity flag that looks at NotBefore as well
GetCertInfoOf_ChecksNotBefore(m, st, t) ==
    IF ~FileExists(st, getCertPath(m)[1], CertFile)
        THEN [err |-> "CertificateNotFound"]
    ELSE IF pemDecode(st[getCertPath(m)[1]][CertFile].data).nil
        THEN [err |-> "CertificateUnreadable"]
    ELSE IF ParseCertificate(pemDecode(st[getCertPath(m)[1]][CertFile].data).bytes).err
        THEN [err |-> "CertificateParseError"]
    ELSE [err |-> NoError,
          Domain |-> primaryDomain(m),
          CertPath |-> getCertPath(m),
          KeyPath |-> getKeyPath(m),
          ChainPath |-> getChainPath(m),
          ExpiryDate |->
              ParseCertificate(pemDecode(st[getCertPath(m)[1]][CertFile].data).bytes).cert.notAfter,
          IsValid |->
              /\ ParseCertificate(pemDecode(st[getCertPath(m)[1]][CertFile].data).bytes).cert.notBefore
                     <= t
              /\ t < ParseCertificate(pemDecode(st[getCertPath(m)[1]][CertFile].data).bytes).cert.notAfter]

\* Manager.GetCertInfo
GetCertInfoOf(m, st, t) ==
    IF ~FileExists(st, getCertPath(m)[1], CertFile)
        THEN [err |-> "CertificateNotFound"]
    ELSE IF pemDecode(st[getCertPath(m)[1]][CertFile].data).nil
        THEN [err |-> "CertificateUnreadable"]
    ELSE IF ParseCertificate(pemDecode(st[getCertPath(m)[1]][CertFile].data).bytes).err
        THEN [err |-> "CertificateParseError"]
    ELSE [err |-> NoError,
          Domain |-> primaryDomain(m),
          CertPath |-> getCertPath(m),
          KeyPath |-> getKeyPath(m),
          ChainPath |-> getChainPath(m),
          ExpiryDate |->
              ParseCertificate(pemDecode(st[getCertPath(m)[1]][CertFile].data).bytes).cert.notAfter,
          IsValid |-> t <
              ParseCertificate(pemDecode(st[getCertPath(m)[1]][CertFile].data).bytes).cert.notAfter]


(***************************************************************************)
(* Inputs of the model                                                     *)
(***************************************************************************)
DomA == <<"a", ".", "b">>
DomC == <<"c", ".", "d">>
DomW == <<"*", ".", "a", ".", "b">>

\* the domains single-domain managers are made for
SingleDomains == {DomA, DomW}
\* the domain lists multi-domain managers are made for
MultiDomainLists == {<<>>, <<DomA, DomC>>, <<DomA, DomW>>, <<DomW>>}

\* umask 022 and umask 077
Umasks == {18, 63}

\* the days the clock advances by in one step
TickSteps == {30, 31}

\* a certificate made elsewhere, whose validity begins after the last day
\* of the model
PostDatedCert ==
    [der |-> "cert",
     Subject |-> DomA,
     DNSNames |-> <<DomA>>,
     notBefore |-> MaxNow + 1,
     notAfter |-> MaxNow + 1 + ValidityDays,
     pub |-> << <<"x">>, 1>>]

\* what an imported archive writes over a cert.pem: text without a PEM
\* block, a PEM block whose bytes are no certificate, and a certificate
ImportedData ==
    {TextData(<<"x">>), pemEncode("CERTIFICATE", [der |-> "junk"]),
     pemEncode("CERTIFICATE", PostDatedCert)}

\* the values SetWebServer is called with: one of the type, and an integer
\* that is none of the three
WebServerInputs == {WebServerApache, WebServerIIS + 1}

(***************************************************************************)
(* Install, stage by stage.  A stage either moves on to the next or ends   *)
(* the operation with its error; `fault` is what the operating system or   *)
(* the crypto library answers.                                             *)
(***************************************************************************)
ClearLocals ==
    /\ privateKey' = NoKey
    /\ csr' = NoCSR
    /\ cert' = NoCert

\* return err: the operation is over; an install command then has only to
\* leave the process
Fail(err) ==
    /\ result' = err
    /\ pc' = IF cli = NoCli THEN "idle" ELSE "exit"
    /\ ClearLocals

\* Manager.createCertDir / MultiDomainManager.createCertDir
createCertDir(st, m) == MkdirAll(st, dirName(m))

\* The head of Install: the wildcard check of MultiDomainManager.Install,
\* then stage 1 of both managers, the creation of the directory.
BeginInstall(m, fault) ==
    /\ atEntry' = [rerun |-> op = "Install" /\ result = NoError,
                   files |-> IF DirExists(store, dirName(m))
                                 THEN DOMAIN store[dirName(m)] ELSE {}]
    /\ IF installRejectsWildcard(m)
           THEN /\ fault = "ok"
                /\ Fail("WildcardChallengeMismatch")
                /\ store' = store
       ELSE IF fault = "MkdirError"
           THEN /\ Fail("CreateCertDirFailed")
                /\ store' = store
       ELSE /\ store' = createCertDir(store, m)
            /\ pc' = "generatePrivateKey"
            /\ result' = "pending"
            /\ ClearLocals

\* rsa.GenerateKey: a key that no file of the directory and no variable holds,
\* named after the directory it is generated for
KeysOfFile(file) ==
    IF file.data.kind # "pem" THEN {}
    ELSE IF file.data.bytes.der = "rsa" THEN {file.data.bytes.key}
    ELSE IF file.data.bytes.der = "cert" THEN {file.data.bytes.pub}
    ELSE {}

KeysInUse(dir) ==
    (IF DirExists(store, dir)
         THEN UNION {KeysOfFile(store[dir][n]) : n \in DOMAIN store[dir]}
         ELSE {})
        \cup {privateKey} \cup (IF cert.der = "cert" THEN {cert.pub} ELSE {})

FreshKey(dir) ==
    CHOOSE k \in ({dir} \X (1..MaxKeys)) \ KeysInUse(dir) :
        \A k2 \in ({dir} \X (1..MaxKeys)) \ KeysInUse(dir) : k[2] <= k2[2]

\* a generatePrivateKey that returns the key and leaves the writing of
\* key.pem to saveCertificate
keyFileWritten_Deferred(st, m, key, mask, fault) == st

\* the store after generatePrivateKey: os.Create, pem.Encode, os.Chmod
keyFileWritten(st, m, key, mask, fault) ==
    IF fault \in {"GenerateKeyError", "CreateError"} THEN st
    ELSE IF fault = "EncodeError"
        THEN OpenTrunc(st, getKeyPath(m)[1], KeyFile, ModeCreate, mask)
    ELSE IF fault = "ChmodError"
        THEN WriteData(OpenTrunc(st, getKeyPath(m)[1], KeyFile, ModeCreate, mask),
                 getKeyPath(m)[1], KeyFile,
                 pemEncode("RSA PRIVATE KEY", MarshalPKCS1PrivateKey(key)))
    ELSE Chmod(WriteData(OpenTrunc(st, getKeyPath(m)[1], KeyFile, ModeCreate, mask),
                   getKeyPath(m)[1], KeyFile,
                   pemEncode("RSA PRIVATE KEY", MarshalPKCS1PrivateKey(key))),
             getKeyPath(m)[1], KeyFile, ModeKey)

KeyFaults == {"ok", "GenerateKeyError", "CreateError", "EncodeError", "ChmodError"}

\* stage 2
generatePrivateKeyStage(faults) ==
    /\ pc = "generatePrivateKey"
    /\ \E fault \in faults :
           /\ store' = keyFileWritten(store, mgr, FreshKey(dirName(mgr)), umask, fault)
           /\ IF fault = "ok"
                  THEN /\ privateKey' = FreshKey(dirName(mgr))
                       /\ pc' = "createCSR"
                       /\ UNCHANGED <<result, csr, cert>>
                  ELSE Fail("GeneratePrivateKeyFailed")
    /\ UNCHANGED <<now, umask, cli, mgr, op, calls, info, parsed, atEntry, nginxVars, schedulerVars, backupVars, race>>

\* Manager.createCSR / MultiDomainManager.createMultiDomainCSR: the request
\* names the primary domain as subject and the domains as SAN, and carries
\* the public key of the private key
createCSROf(m, key) ==
    [set |-> TRUE,
     CommonName |-> primaryDomain(m),
     DNSNames |-> m.domains,
     PublicKey |-> key]

\* an Install that goes from the CSR straight to saveCertificate
createCSRStage_SkipsObtain(faults) ==
    /\ pc = "createCSR"
    /\ \E fault \in faults :
           IF fault = "ok"
               THEN /\ csr' = createCSROf(mgr, privateKey)
                    /\ pc' = "saveCertificate"
                    /\ UNCHANGED <<result, privateKey, cert>>
               ELSE Fail("CreateCSRFailed")
    /\ UNCHANGED <<store, now, umask, cli, mgr, op, calls, info, parsed, atEntry, nginxVars, schedulerVars, backupVars, race>>

\* stage 3
createCSRStage(faults) ==
    /\ pc = "createCSR"
    /\ \E fault \in faults :
           IF fault = "ok"
               THEN /\ csr' = createCSROf(mgr, privateKey)
                    /\ pc' = "obtainCertificate"
                    /\ UNCHANGED <<result, privateKey, cert>>
               ELSE Fail("CreateCSRFailed")
    /\ UNCHANGED <<store, now, umask, cli, mgr, op, calls, info, parsed, atEntry, nginxVars, schedulerVars, backupVars, race>>

\* generateSelfSignedCert / generateMultiDomainSelfSignedCert: subject and SAN
\* of the request, valid from now for 90 days, over the public key of a key
\* generated here
generateSelfSignedCert(request, t, signerKey) ==
    [der |-> "cert",
     Subject |-> request.CommonName,
     DNSNames |-> request.DNSNames,
     notBefore |-> t,
     notAfter |-> t + ValidityDays,
     pub |-> signerKey]

\* obtainCertificate: the switch over the challenge type; the Webroot and
\* Standalone branches of the multi-domain manager refuse a wildcard
obtainRefuses(m) ==
    \/ m.challengeType \notin ChallengeTypes
    \/ /\ m.kind = "multi"
       /\ m.challengeType \in {ChallengeWebroot, ChallengeStandalone}
       /\ hasWildcardDomain(m)

\* an Install that asks for the certificate a second time when the first
\* request failed
obtainCertificateStage_Retries(faults) ==
    /\ pc = "obtainCertificate"
    /\ calls' = [calls EXCEPT !.ca = @ + 1]
    /\ \E fault \in faults :
           IF obtainRefuses(mgr) \/ fault # "ok"
               THEN IF calls.ca = 0
                        THEN UNCHANGED <<pc, result, privateKey, csr, cert>>
                        ELSE Fail("ObtainCertificateFailed")
               ELSE /\ cert' = generateSelfSignedCert(csr, now, FreshKey(dirName(mgr)))
                    /\ pc' = "saveCertificate"
                    /\ UNCHANGED <<result, privateKey, csr>>
    /\ UNCHANGED <<store, now, umask, cli, mgr, op, info, parsed, atEntry, nginxVars, schedulerVars, backupVars, race>>

\* stage 4
obtainCertificateStage(faults) ==
    /\ pc = "obtainCertificate"
    /\ calls' = [calls EXCEPT !.ca = @ + 1]
    /\ \E fault \in faults :
           IF obtainRefuses(mgr) \/ fault # "ok"
               THEN Fail("ObtainCertificateFailed")
               ELSE /\ cert' = generateSelfSignedCert(csr, now, FreshKey(dirName(mgr)))
                    /\ pc' = "saveCertificate"
                    /\ UNCHANGED <<result, privateKey, csr>>
    /\ UNCHANGED <<store, now, umask, cli, mgr, op, info, parsed, atEntry, nginxVars, schedulerVars, backupVars, race>>

\* the store after MultiDomainManager.saveCertificate wrote domains.txt with
\* os.WriteFile; a failure of it is logged and nothing else
domainsListWritten(st, m, mask, fault) ==
    IF fault = "DomainsListCreateError" THEN st
    ELSE IF fault = "DomainsListWriteError"
        THEN OpenTrunc(st, getDomainsListPath(m)[1], DomainsFile, ModeDomainsList, mask)
    ELSE WriteData(OpenTrunc(st, getDomainsListPath(m)[1], DomainsFile,
                       ModeDomainsList, mask),
             getDomainsListPath(m)[1], DomainsFile,
             TextData(Join(m.domains, <<"\n">>)))

\* the store after saveCertificate: os.Create and pem.Encode of cert.pem,
\* then, in the multi-domain manager, domains.txt
certFileWritten(st, m, certBytes, mask, fault) ==
    IF fault = "CreateError" THEN st
    ELSE IF fault = "EncodeError"
        THEN OpenTrunc(st, getCertPath(m)[1], CertFile, ModeCreate, mask)
    ELSE IF m.kind = "multi"
        THEN domainsListWritten(
                 WriteData(OpenTrunc(st, getCertPath(m)[1], CertFile, ModeCreate, mask),
                     getCertPath(m)[1], CertFile, pemEncode("CERTIFICATE", certBytes)),
                 m, mask, fault)
    ELSE WriteData(OpenTrunc(st, getCertPath(m)[1], CertFile, ModeCreate, mask),
             getCertPath(m)[1], CertFile, pemEncode("CERTIFICATE", certBytes))

SaveFaults(m) ==
    {"ok", "CreateError", "EncodeError"}
        \cup (IF m.kind = "multi"
                  THEN {"DomainsListCreateError", "DomainsListWriteError"} ELSE {})

\* saveCertificate returns an error for the faults of cert.pem alone
saveFails(fault) == fault \in {"CreateError", "EncodeError"}

\* stage 5
saveCertificateStage(faults) ==
    /\ pc = "saveCertificate"
    /\ \E fault \in faults \cap SaveFaults(mgr) :
           /\ store' = certFileWritten(store, mgr, cert, umask, fault)
           /\ IF saveFails(fault)
                  THEN Fail("SaveCertificateFailed")
                  ELSE /\ pc' = "configureWebServer"
                       /\ UNCHANGED <<result, privateKey, csr, cert>>
    /\ UNCHANGED <<now, umask, cli, mgr, op, calls, info, parsed, atEntry, nginxVars, schedulerVars, backupVars, race>>

\* a switch whose default branch returns nil as well
configureWebServerFails_Never(m) == FALSE

\* configureWebServer / configureWebServers: configureNginx, configureApache
\* and configureIIS log and return nil; any other type is an error
configureWebServerFails(m) == m.webServerType \notin WebServerTypes

\* stage 6, and the return of Install
configureWebServer ==
    /\ pc = "configureWebServer"
    /\ IF configureWebServerFails(mgr)
           THEN Fail("ConfigureWebServerFailed")
           ELSE Fail(NoError)
    /\ UNCHANGED <<store, now, umask, cli, mgr, op, calls, info, parsed, atEntry, nginxVars, schedulerVars, backupVars, race>>

generatePrivateKey == generatePrivateKeyStage(KeyFaults)
createCSR == createCSRStage({"ok", "CreateCSRError"})
obtainCertificate == obtainCertificateStage({"ok", "CAError"})
saveCertificate == saveCertificateStage(SaveFaults(mgr))

(***************************************************************************)
(* The operations of the managers, called on one manager object            *)
(***************************************************************************)
\* cert.NewManager(domain, email)
NewManager ==
    /\ pc = "idle"
    /\ mgr = NoMgr
    /\ cli = NoCli
    /\ \E domain \in SingleDomains : mgr' = NewManagerObj(domain)
    /\ op' = "NewManager"
    /\ result' = "none"
    /\ info' = NoInfo
    /\ calls' = NoCalls
    /\ atEntry' = NoEntry
    /\ UNCHANGED <<store, now, umask, cli, pc, privateKey, csr, cert, parsed, nginxVars, schedulerVars, backupVars, race>>

\* cert.NewMultiDomainManager(domains, email)
NewMultiDomainManager ==
    /\ pc = "idle"
    /\ mgr = NoMgr
    /\ cli = NoCli
    /\ \E domainList \in MultiDomainLists : mgr' = NewMultiDomainManagerObj(domainList)
    /\ op' = "NewMultiDomainManager"
    /\ result' = "none"
    /\ info' = NoInfo
    /\ calls' = NoCalls
    /\ atEntry' = NoEntry
    /\ UNCHANGED <<store, now, umask, cli, pc, privateKey, csr, cert, parsed, nginxVars, schedulerVars, backupVars, race>>

\* SetChallengeType of both managers
SetChallengeType ==
    /\ pc = "idle"
    /\ "SetChallengeType" \in Methods(mgr.kind)
    /\ cli = NoCli
    /\ \E challengeType \in ChallengeTypes :
           mgr' = [mgr EXCEPT !.challengeType = challengeType]
    /\ op' = "SetChallengeType"
    /\ result' = "none"
    /\ info' = NoInfo
    /\ calls' = NoCalls
    /\ atEntry' = NoEntry
    /\ UNCHANGED <<store, now, umask, cli, pc, privateKey, csr, cert, parsed, nginxVars, schedulerVars, backupVars, race>>

\* SetWebServer of both managers: any value of the integer type is taken
SetWebServer ==
    /\ pc = "idle"
    /\ "SetWebServer" \in Methods(mgr.kind)
    /\ cli = NoCli
    /\ \E webServerType \in WebServerInputs :
           mgr' = [mgr EXCEPT !.webServerType = webServerType]
    /\ op' = "SetWebServer"
    /\ result' = "none"
    /\ info' = NoInfo
    /\ calls' = NoCalls
    /\ atEntry' = NoEntry
    /\ UNCHANGED <<store, now, umask, cli, pc, privateKey, csr, cert, parsed, nginxVars, schedulerVars, backupVars, race>>

\* Install of both managers, up to and with the creation of the directory
Install ==
    /\ pc = "idle"
    /\ "Install" \in Methods(mgr.kind)
    /\ cli = NoCli
    /\ op' = "Install"
    /\ calls' = [install |-> 1, ca |-> 0]
    /\ info' = NoInfo
    /\ \E fault \in {"ok", "MkdirError"} : BeginInstall(mgr, fault)
    /\ UNCHANGED <<now, umask, cli, mgr, parsed, nginxVars, schedulerVars, backupVars, race>>

\* Manager.GetCertInfo
GetCertInfo ==
    /\ pc = "idle"
    /\ "GetCertInfo" \in Methods(mgr.kind)
    /\ cli = NoCli
    /\ op' = "GetCertInfo"
    /\ info' = GetCertInfoOf(mgr, store, now)
    /\ result' = GetCertInfoOf(mgr, store, now).err
    /\ calls' = NoCalls
    /\ atEntry' = NoEntry
    /\ UNCHANGED <<store, now, umask, cli, mgr, pc, privateKey, csr, cert, parsed, nginxVars, schedulerVars, backupVars, race>>

\* a Renew that installs a certificate when none is stored
Renew_Bootstraps ==
    /\ pc = "idle"
    /\ "Renew" \in Methods(mgr.kind)
    /\ cli = NoCli
    /\ op' = "Renew"
    /\ info' = GetCertInfoOf(mgr, store, now)
    /\ IF GetCertInfoOf(mgr, store, now).err \notin {NoError, "CertificateNotFound"}
           THEN /\ Fail(GetCertInfoOf(mgr, store, now).err)
                /\ calls' = NoCalls
                /\ atEntry' = NoEntry
                /\ store' = store
       ELSE IF /\ GetCertInfoOf(mgr, store, now).err = NoError
               /\ notYetDue(GetCertInfoOf(mgr, store, now).ExpiryDate, now)
           THEN /\ Fail(NoError)
                /\ calls' = NoCalls
                /\ atEntry' = NoEntry
                /\ store' = store
       ELSE /\ calls' = [install |-> 1, ca |-> 0]
            /\ \E fault \in {"ok", "MkdirError"} : BeginInstall(mgr, fault)
    /\ UNCHANGED <<now, umask, cli, mgr, parsed, nginxVars, schedulerVars, backupVars, race>>

\* Manager.Renew: GetCertInfo, the 30 days test, then Install
Renew ==
    /\ pc = "idle"
    /\ "Renew" \in Methods(mgr.kind)
    /\ cli = NoCli
    /\ op' = "Renew"
    /\ info' = GetCertInfoOf(mgr, store, now)
    /\ IF GetCertInfoOf(mgr, store, now).err # NoError
           THEN /\ Fail(GetCertInfoOf(mgr, store, now).err)
                /\ calls' = NoCalls
                /\ atEntry' = NoEntry
                /\ store' = store
       ELSE IF notYetDue(GetCertInfoOf(mgr, store, now).ExpiryDate, now)
           THEN /\ Fail(NoError)
                /\ calls' = NoCalls
                /\ atEntry' = NoEntry
                /\ store' = store
       ELSE /\ calls' = [install |-> 1, ca |-> 0]
            /\ \E fault \in {"ok", "MkdirError"} : BeginInstall(mgr, fault)
    /\ UNCHANGED <<now, umask, cli, mgr, parsed, nginxVars, schedulerVars, backupVars, race>>

(***************************************************************************)
(* The environment of the managers                                         *)
(***************************************************************************)
Forget ==
    /\ op' = "none"
    /\ result' = "none"
    /\ info' = NoInfo
    /\ calls' = NoCalls
    /\ atEntry' = NoEntry

\* time passes between two operations
Tick ==
    /\ pc = "idle"
    /\ cli = NoCli
    /\ \E step \in TickSteps :
           /\ now + step <= MaxNow
           /\ now' = now + step
    /\ Forget
    /\ UNCHANGED <<store, umask, cli, mgr, pc, privateKey, csr, cert, parsed, nginxVars, schedulerVars, backupVars, race>>

\* backup.Manager.extractFileFromTar for the entry certs/<dir>/cert.pem of an
\* archive: MkdirAll, os.Create, io.Copy, os.Chmod with the mode of the entry
ImportCertFile ==
    /\ pc = "idle"
    /\ mgr # NoMgr
    /\ cli = NoCli
    /\ \E data \in ImportedData, mode \in {ModeDomainsList} :
           store' = Chmod(WriteData(
                        OpenTrunc(MkdirAll(store, dirName(mgr)), dirName(mgr),
                            CertFile, ModeCreate, umask),
                        dirName(mgr), CertFile, data),
                      dirName(mgr), CertFile, mode)
    /\ Forget
    /\ UNCHANGED <<now, umask, cli, mgr, pc, privateKey, csr, cert, parsed, nginxVars, schedulerVars, backupVars, race>>

(***************************************************************************)
(* cmd/install.go: the install command                                     *)
(***************************************************************************)
\* the challenge type installSingleDomain sets on the manager
singleChallengeType(flags, domain) ==
    IF flags.dns \/ HasPrefix(domain, WildcardPrefix) THEN ChallengeDNS
    ELSE IF flags.standalone THEN ChallengeStandalone
    ELSE IF flags.webroot # <<>> THEN ChallengeWebroot
    ELSE ChallengeWebroot

\* installMultiDomain with the --standalone branch lost
multiChallengeType_NoStandalone(flags, domainList) ==
    IF flags.dns \/ hasWildcardIn(domainList) THEN ChallengeDNS
    ELSE ChallengeWebroot

\* the challenge type installMultiDomain sets on the manager
multiChallengeType(flags, domainList) ==
    IF flags.dns \/ hasWildcardIn(domainList) THEN ChallengeDNS
    ELSE IF flags.standalone THEN ChallengeStandalone
    ELSE IF flags.webroot # <<>> THEN ChallengeWebroot
    ELSE ChallengeWebroot

\* SetWebrootPath is called in the --webroot branch alone
webrootPathSet(flags, challengeType, wildcard) ==
    IF ~(flags.dns \/ wildcard) /\ ~flags.standalone /\ flags.webroot # <<>>
        THEN flags.webroot ELSE <<>>

\* the web server type both install functions set; without a flag the
\* manager keeps the zero value of the type
webServerTypeOf(flags) ==
    IF flags.nginx THEN WebServerNginx
    ELSE IF flags.apache THEN WebServerApache
    ELSE IF flags.iis THEN WebServerIIS
    ELSE WebServerNginx

\* installSingleDomain: the manager it calls Install on
installSingleDomain(flags, domain) ==
    [NewManagerObj(domain) EXCEPT
        !.challengeType = singleChallengeType(flags, domain),
        !.webrootPath = webrootPathSet(flags, singleChallengeType(flags, domain),
                            HasPrefix(domain, WildcardPrefix)),
        !.webServerType = webServerTypeOf(flags)]

\* installMultiDomain: the manager it calls Install on
installMultiDomain(flags, domainList) ==
    [NewMultiDomainManagerObj(domainList) EXCEPT
        !.challengeType = multiChallengeType(flags, domainList),
        !.webrootPath = webrootPathSet(flags, multiChallengeType(flags, domainList),
                            hasWildcardIn(domainList)),
        !.webServerType = webServerTypeOf(flags)]

\* runInstall without the call of validateInstallFlags
configError_ParseOnly(flags) == parseDomains(flags).err

\* the error runInstall returns before it makes a manager, or NoError
configError(flags) ==
    IF parseDomains(flags).err # NoError THEN parseDomains(flags).err
    ELSE validateInstallFlags(flags, parseDomains(flags).list)

\* the manager runInstall makes for a command line that passed the checks
managerFor(flags) ==
    IF Len(parseDomains(flags).list) = 1
        THEN installSingleDomain(flags, parseDomains(flags).list[1])
        ELSE installMultiDomain(flags, parseDomains(flags).list)

\* the values of --domain, --domains and --webroot the command is run with
DomainFlagValues == {<<>>, DomA, DomW, <<" ">> \o DomA, <<"a", " ", "b">>}
DomainsFlagValues ==
    {<<>>, DomA \o <<",">> \o DomC, DomA \o <<",", " ">> \o DomW, DomA \o <<",">>}
WebrootFlagValues == {<<>>, <<"/", "w">>}

\* --domain alone, --domains alone, none of them, and both of them
DomainFlagPairs ==
    {<<d, <<>> >> : d \in DomainFlagValues}
        \cup {<< <<>>, l>> : l \in DomainsFlagValues}
        \cup {<<DomW, DomA \o <<",">> \o DomC>>}

CliFlags ==
    {[domain |-> dd[1], domains |-> dd[2], webroot |-> w, standalone |-> sa,
      dns |-> dn, nginx |-> ng, apache |-> ap, iis |-> ii, set |-> TRUE] :
        dd \in DomainFlagPairs, w \in WebrootFlagValues, sa \in BOOLEAN,
        dn \in BOOLEAN, ng \in BOOLEAN, ap \in BOOLEAN, ii \in BOOLEAN}

\* runInstall: parseDomains, validateInstallFlags, then installSingleDomain or
\* installMultiDomain up to and with the first stage of Install
RunInstall ==
    /\ pc = "idle"
    /\ cli = NoCli
    /\ \E flags \in CliFlags :
           /\ cli' = flags
           /\ parsed' = parseDomains(flags)
           /\ IF configError(flags) # NoError
                  THEN /\ result' = configError(flags)
                       /\ pc' = "exit"
                       /\ ClearLocals
                       /\ mgr' = NoMgr
                       /\ calls' = NoCalls
                       /\ atEntry' = NoEntry
                       /\ store' = store
                  ELSE /\ mgr' = managerFor(flags)
                       /\ calls' = [install |-> 1, ca |-> 0]
                       /\ BeginInstall(managerFor(flags), "ok")
    /\ op' = "install"
    /\ info' = NoInfo
    /\ UNCHANGED <<now, umask, nginxVars, schedulerVars, backupVars, race>>

\* the process of the command ends: os.Exit, or the return of main
Exit ==
    /\ pc = "exit"
    /\ pc' = "idle"
    /\ cli' = NoCli
    /\ mgr' = NoMgr
    /\ parsed' = NoParse
    /\ Forget
    /\ UNCHANGED <<store, now, umask, privateKey, csr, cert, nginxVars, schedulerVars, backupVars, race>>

\* the stages of Install on a machine whose file system and crypto library
\* answer without error
generatePrivateKeyOk == generatePrivateKeyStage({"ok"})
createCSROk == createCSRStage({"ok"})
obtainCertificateOk == obtainCertificateStage({"ok"})
saveCertificateOk == saveCertificateStage({"ok"})

Init ==
    /\ store = <<>>
    /\ now = 0
    /\ umask \in Umasks
    /\ cli = NoCli
    /\ mgr = NoMgr
    /\ op = "none"
    /\ pc = "idle"
    /\ result = "none"
    /\ privateKey = NoKey
    /\ csr = NoCSR
    /\ cert = NoCert
    /\ calls = NoCalls
    /\ info = NoInfo
    /\ parsed = NoParse
    /\ atEntry = NoEntry
    /\ config = NoConfig
    /\ enabled = NoAnswer
    /\ crontab = NoCrontab
    /\ cronOp = NoCronOp
    /\ query = NoQuery
    /\ listed = NoList
    /\ archive = NoArchive
    /\ otherFiles = <<>>
    /\ backupOp = NoBackupOp
    /\ race = RaceIdle

Next ==
    \/ NewManager
    \/ NewMultiDomainManager
    \/ SetChallengeType
    \/ SetWebServer
    \/ Install
    \/ generatePrivateKey
    \/ createCSR
    \/ obtainCertificate
    \/ saveCertificate
    \/ configureWebServer
    \/ GetCertInfo
    \/ Renew
    \/ Tick
    \/ ImportCertFile

Spec == Init /\ [][Next]_vars


\* The install command, run again and again on one machine
NextCli ==
    \/ RunInstall
    \/ generatePrivateKeyOk
    \/ createCSROk
    \/ obtainCertificateOk
    \/ saveCertificateOk
    \/ configureWebServer
    \/ Exit

\* the machine the commands run on has the usual umask 022
InitCli ==
    /\ Init
    /\ umask = 18

SpecCli == InitCli /\ [][NextCli]_vars

(***************************************************************************)
(* parseDomains on every raw flag value up to MaxRawLen characters         *)
(***************************************************************************)
RawAlphabet == {"a", ".", "*", " ", "\t", ","}
RawStrings == UNION {[1..n -> RawAlphabet] : n \in 0..MaxRawLen}

NoFlags ==
    [domain |-> <<>>, domains |-> <<>>, webroot |-> <<>>, standalone |-> FALSE,
     dns |-> FALSE, nginx |-> FALSE, apache |-> FALSE, iis |-> FALSE, set |-> TRUE]

InitParse ==
    /\ \E raw \in RawStrings :
           \/ cli = [NoFlags EXCEPT !.domain = raw]
           \/ cli = [NoFlags EXCEPT !.domains = raw]
    /\ store = <<>>
    /\ now = 0
    /\ umask \in {18}
    /\ mgr = NoMgr
    /\ op = "none"
    /\ pc = "idle"
    /\ result = "none"
    /\ privateKey = NoKey
    /\ csr = NoCSR
    /\ cert = NoCert
    /\ calls = NoCalls
    /\ info = NoInfo
    /\ parsed = NoParse
    /\ atEntry = NoEntry
    /\ config = NoConfig
    /\ enabled = NoAnswer
    /\ crontab = NoCrontab
    /\ cronOp = NoCronOp
    /\ query = NoQuery
    /\ listed = NoList
    /\ archive = NoArchive
    /\ otherFiles = <<>>
    /\ backupOp = NoBackupOp
    /\ race = RaceIdle

\* the call of parseDomains at the head of runInstall
ParseDomains ==
    /\ op = "none"
    /\ op' = "parseDomains"
    /\ parsed' = parseDomains(cli)
    /\ result' = parseDomains(cli).err
    /\ UNCHANGED <<store, now, umask, cli, mgr, pc, privateKey, csr, cert, calls, info,
                   atEntry, nginxVars, schedulerVars, backupVars, race>>

NextParse == ParseDomains

SpecParse == InitParse /\ [][NextParse]_vars


(***************************************************************************)
(* internal/webserver: NginxConfigurator.IsSSLEnabled.  A site config file *)
(* is a sequence of lines; a line is a sequence of symbols, a symbol being *)
(* a keyword, a punctuation mark or a character of a domain name.          *)
(***************************************************************************)
LineServer == <<"server", " ", "{">>
LineClose == <<"}">>
LineLocation == <<"location", " ", "/", " ", "{">>
LineSSL == <<"ssl_certificate", " ", "c", ";">>
LineServerName == <<"server_name", " ">> \o DomA \o <<";">>
LineComment == <<"#", " ", "server_name", " ">> \o DomA \o <<";">>

ConfLines == {LineServer, LineClose, LineLocation, LineSSL, LineServerName, LineComment}

\* the loop without the reset of the two flags at a `server {` line
RECURSIVE scanConfig_NoReset(_, _, _, _, _, _)
scanConfig_NoReset(lines, i, domain, inServerBlock, hasSSL, hasDomain) ==
    IF i > Len(lines) THEN FALSE
    ELSE IF Contains(TrimSpace(lines[i]), <<"server", " ", "{">>)
        THEN scanConfig_NoReset(lines, i + 1, domain, TRUE, hasSSL, hasDomain)
    ELSE IF Contains(TrimSpace(lines[i]), <<"}">>) /\ inServerBlock
        THEN IF hasSSL /\ hasDomain THEN TRUE
             ELSE scanConfig_NoReset(lines, i + 1, domain, FALSE, hasSSL, hasDomain)
    ELSE IF inServerBlock
        THEN scanConfig_NoReset(lines, i + 1, domain, TRUE,
                 hasSSL \/ Contains(TrimSpace(lines[i]), <<"ssl_certificate">>),
                 hasDomain \/ (/\ Contains(TrimSpace(lines[i]), <<"server_name">>)
                               /\ Contains(TrimSpace(lines[i]), domain)))
    ELSE scanConfig_NoReset(lines, i + 1, domain, inServerBlock, hasSSL, hasDomain)

\* the loop of checkSSLInConfig from line i on, with its three flags;
\* the end of the file is reached without a return: false
RECURSIVE scanConfig(_, _, _, _, _, _)
scanConfig(lines, i, domain, inServerBlock, hasSSL, hasDomain) ==
    IF i > Len(lines) THEN FALSE
    ELSE IF Contains(TrimSpace(lines[i]), <<"server", " ", "{">>)
        THEN scanConfig(lines, i + 1, domain, TRUE, FALSE, FALSE)
    ELSE IF Contains(TrimSpace(lines[i]), <<"}">>) /\ inServerBlock
        THEN IF hasSSL /\ hasDomain THEN TRUE
             ELSE scanConfig(lines, i + 1, domain, FALSE, hasSSL, hasDomain)
    ELSE IF inServerBlock
        THEN scanConfig(lines, i + 1, domain, TRUE,
                 hasSSL \/ Contains(TrimSpace(lines[i]), <<"ssl_certificate">>),
                 hasDomain \/ (/\ Contains(TrimSpace(lines[i]), <<"server_name">>)
                               /\ Contains(TrimSpace(lines[i]), domain)))
    ELSE scanConfig(lines, i + 1, domain, inServerBlock, hasSSL, hasDomain)

\* checkSSLInConfig: false for a file that cannot be opened
checkSSLInConfig(file, domain) ==
    IF ~file.readable THEN FALSE
    ELSE scanConfig(file.lines, 1, domain, FALSE, FALSE, FALSE)

\* IsSSLEnabled: true when one of the site config files passes
IsSSLEnabled(files, domain) ==
    \E f \in 1..Len(files) : checkSSLInConfig(files[f], domain)

\* the site config files are there before IsSSLEnabled is called: the
\* directories findSiteConfigs looks in are empty at first
InitNginx ==
    /\ config = [files |-> <<>>, domain |-> DomA]
    /\ enabled = NoAnswer
    /\ crontab = NoCrontab
    /\ cronOp = NoCronOp
    /\ query = NoQuery
    /\ listed = NoList
    /\ archive = NoArchive
    /\ otherFiles = <<>>
    /\ backupOp = NoBackupOp
    /\ race = RaceIdle
    /\ store = <<>>
    /\ now = 0
    /\ umask \in {18}
    /\ cli = NoCli
    /\ mgr = NoMgr
    /\ op = "none"
    /\ pc = "idle"
    /\ result = "none"
    /\ privateKey = NoKey
    /\ csr = NoCSR
    /\ cert = NoCert
    /\ calls = NoCalls
    /\ info = NoInfo
    /\ parsed = NoParse
    /\ atEntry = NoEntry

\* a site config file appears in a directory findSiteConfigs looks in; it
\* may be one that os.Open cannot open
AddConfigFile ==
    /\ enabled = NoAnswer
    /\ Len(config.files) < 2
    /\ Len(config.files) = 1 =>
           /\ config.files[1].readable
           /\ Len(config.files[1].lines) <= MaxConfLines \div 2
    /\ \E r \in BOOLEAN :
           config' = [config EXCEPT
                         !.files = Append(@, [lines |-> <<>>, readable |-> r])]
    /\ UNCHANGED <<store, now, umask, cli, mgr, op, pc, result, privateKey, csr, cert,
                   calls, info, parsed, atEntry, enabled, schedulerVars, backupVars, race>>

\* a line is written at the end of the last site config file
AppendConfigLine ==
    /\ enabled = NoAnswer
    /\ Len(config.files) >= 1
    /\ config.files[Len(config.files)].readable
    /\ Len(config.files[Len(config.files)].lines)
           < (IF Len(config.files) = 1 THEN MaxConfLines ELSE MaxConfLines \div 2)
    /\ \E line \in ConfLines :
           config' = [config EXCEPT
                         !.files[Len(config.files)].lines = Append(@, line)]
    /\ UNCHANGED <<store, now, umask, cli, mgr, op, pc, result, privateKey, csr, cert,
                   calls, info, parsed, atEntry, enabled, schedulerVars, backupVars, race>>

\* NginxConfigurator.IsSSLEnabled(domain)
CheckSSLEnabled ==
    /\ enabled = NoAnswer
    /\ enabled' = [set |-> TRUE, value |-> IsSSLEnabled(config.files, config.domain)]
    /\ UNCHANGED <<store, now, umask, cli, mgr, op, pc, result, privateKey, csr, cert,
                   calls, info, parsed, atEntry, config, schedulerVars, backupVars, race>>

NextNginx ==
    \/ AddConfigFile
    \/ AppendConfigLine
    \/ CheckSSLEnabled

SpecNginx == InitNginx /\ [][NextNginx]_vars

(***************************************************************************)
(* scheduler: the crontab path of LinuxScheduler.  The crontab is a text,  *)
(* a sequence of symbols with "\n" at the end of each line; a symbol is a  *)
(* schedule, a word of a command, a punctuation mark or a character of a   *)
(* task name.                                                              *)
(***************************************************************************)
\* the task names the scheduler is called with: one is a prefix of the other
TaskT == <<"t">>
TaskTR == <<"t", "-", "r">>
TaskNames == {TaskT, TaskTR}

CronSchedule == <<"0 3 * * *">>
CronCommand == <<"autocert">>

\* lines the user wrote with crontab -e: a job, and a job whose comment
\* begins like a task name
UserJob == <<"5 4 * * *", " ", "backup", "\n">>
UserJobNote == <<"5 4 * * *", " ", "backup", " ", "#", " ", "t", " ", "x", "\n">>
UserLines == {UserJob, UserJobNote}

\* fmt.Sprintf("%s %s renew --all # %s\n", schedule, command, taskName)
cronEntry(taskName, command, schedule) ==
    schedule \o <<" ">> \o command \o <<" ", "renew", " ", "--all", " ", "#", " ">>
        \o taskName \o <<"\n">>

\* "# " + taskName
cronTag(taskName) == <<"#", " ">> \o taskName

\* the output of crontab -l; empty when the command fails
crontabList(tab) == IF tab.exists THEN tab.text ELSE <<>>

\* the lines of removeCronJob that do not contain the tag
keptLines(lines, taskName) ==
    SelectSeq(lines, LAMBDA line : ~Contains(line, cronTag(taskName)))

\* installCronJob: the entry is appended to whatever crontab -l printed
installCronJobOf(tab, taskName, command, schedule, fault) ==
    IF fault = "CrontabWriteError"
        THEN [err |-> "InstallCronJobFailed", tab |-> tab]
    ELSE [err |-> NoError,
          tab |-> [exists |-> TRUE,
                   text |-> crontabList(tab) \o cronEntry(taskName, command, schedule)]]

\* removeCronJob: the lines without the tag, joined again
removeCronJobOf(tab, taskName, fault) ==
    IF ~tab.exists
        THEN [err |-> "ReadCrontabFailed", tab |-> tab]
    ELSE IF fault = "CrontabWriteError"
        THEN [err |-> "RemoveCronJobFailed", tab |-> tab]
    ELSE [err |-> NoError,
          tab |-> [exists |-> TRUE,
                   text |-> Join(keptLines(Split(tab.text, "\n"), taskName), <<"\n">>)]]

\* isCronJobInstalled
isCronJobInstalledOf(tab, taskName) ==
    tab.exists /\ Contains(tab.text, cronTag(taskName))

\* the number of lines of a crontab text
LineCount(text) == Len(Split(text, "\n")) - 1

ManagersUnused ==
    /\ store = <<>>
    /\ now = 0
    /\ umask = 18
    /\ cli = NoCli
    /\ mgr = NoMgr
    /\ op = "none"
    /\ pc = "idle"
    /\ result = "none"
    /\ privateKey = NoKey
    /\ csr = NoCSR
    /\ cert = NoCert
    /\ calls = NoCalls
    /\ info = NoInfo
    /\ parsed = NoParse
    /\ atEntry = NoEntry

managerVars ==
    <<store, now, umask, cli, mgr, op, pc, result, privateKey, csr, cert, calls, info,
      parsed, atEntry>>

\* the user has no crontab at first
InitCron ==
    /\ crontab = NoCrontab
    /\ cronOp = NoCronOp
    /\ query = NoQuery
    /\ listed = NoList
    /\ archive = NoArchive
    /\ otherFiles = <<>>
    /\ backupOp = NoBackupOp
    /\ race = RaceIdle
    /\ config = NoConfig
    /\ enabled = NoAnswer
    /\ ManagersUnused

\* the user adds a line with crontab -e
EditCrontab ==
    /\ LineCount(crontabList(crontab)) < MaxCronLines
    /\ \E line \in UserLines :
           crontab' = [exists |-> TRUE, text |-> crontabList(crontab) \o line]
    /\ cronOp' = NoCronOp
    /\ UNCHANGED <<managerVars, nginxVars, windowsVars, backupVars, race>>

\* LinuxScheduler.Install where systemctl is not found
installCronJob ==
    /\ LineCount(crontabList(crontab)) < MaxCronLines
    /\ \E taskName \in TaskNames, fault \in {"ok", "CrontabWriteError"} :
           /\ crontab' =
                  installCronJobOf(crontab, taskName, CronCommand, CronSchedule, fault).tab
           /\ cronOp' =
                  [op |-> "Install", taskName |-> taskName, before |-> crontab,
                   err |-> installCronJobOf(crontab, taskName, CronCommand,
                               CronSchedule, fault).err]
    /\ UNCHANGED <<managerVars, nginxVars, windowsVars, backupVars, race>>

\* LinuxScheduler.Remove where systemctl is not found
removeCronJob ==
    /\ \E taskName \in TaskNames, fault \in {"ok", "CrontabWriteError"} :
           /\ crontab' = removeCronJobOf(crontab, taskName, fault).tab
           /\ cronOp' =
                  [op |-> "Remove", taskName |-> taskName, before |-> crontab,
                   err |-> removeCronJobOf(crontab, taskName, fault).err]
    /\ UNCHANGED <<managerVars, nginxVars, windowsVars, backupVars, race>>

\* LinuxScheduler.IsInstalled where systemctl is not found
isCronJobInstalled ==
    /\ \E taskName \in TaskNames :
           cronOp' =
               [op |-> "IsInstalled", taskName |-> taskName, before |-> crontab,
                err |-> NoError, value |-> isCronJobInstalledOf(crontab, taskName)]
    /\ UNCHANGED <<crontab, managerVars, nginxVars, windowsVars, backupVars, race>>

NextCron ==
    \/ EditCrontab
    \/ installCronJob
    \/ removeCronJob
    \/ isCronJobInstalled

SpecCron == InitCron /\ [][NextCron]_vars

(***************************************************************************)
(* scheduler: WindowsScheduler.List on the output of schtasks /query, a    *)
(* sequence of characters                                                  *)
(***************************************************************************)
QueryAlphabet == {"x", ",", "\n", "\"", " "}

\* strings.Trim(s, "\""): the quotes at both ends are cut off
RECURSIVE TrimQuotes(_)
TrimQuotes(s) ==
    IF s # <<>> /\ Head(s) = "\"" THEN TrimQuotes(Tail(s))
    ELSE IF s # <<>> /\ s[Len(s)] = "\"" THEN TrimQuotes(SubSeq(s, 1, Len(s) - 1))
    ELSE s

\* the reads fields[0], fields[3], fields[4] and fields[5] of the loop body
highestIndexRead == 5

\* the loop of List over the lines after the title line: an index that is
\* not below len(fields) is a run-time panic
RECURSIVE listRows(_, _)
listRows(rows, tasks) ==
    IF rows = <<>> THEN [kind |-> "tasks", tasks |-> tasks]
    ELSE IF TrimSpace(Head(rows)) = <<>> THEN listRows(Tail(rows), tasks)
    ELSE IF Len(Split(Head(rows), ",")) >= 4
        THEN IF Len(Split(Head(rows), ",")) <= highestIndexRead
                 THEN [kind |-> "panic"]
             ELSE listRows(Tail(rows),
                      Append(tasks,
                          [Name |-> TrimQuotes(Split(Head(rows), ",")[1]),
                           Status |-> TrimQuotes(Split(Head(rows), ",")[4]),
                           LastRun |-> TrimQuotes(Split(Head(rows), ",")[5]),
                           NextRun |-> TrimQuotes(Split(Head(rows), ",")[6])]))
    ELSE listRows(Tail(rows), tasks)

\* WindowsScheduler.List
ListOf(q) ==
    IF q.err THEN [kind |-> "error"]
    ELSE listRows(Tail(Split(q.output, "\n")), <<>>)

InitWindows ==
    /\ query = NoQuery
    /\ listed = NoList
    /\ archive = NoArchive
    /\ otherFiles = <<>>
    /\ backupOp = NoBackupOp
    /\ race = RaceIdle
    /\ crontab = NoCrontab
    /\ cronOp = NoCronOp
    /\ config = NoConfig
    /\ enabled = NoAnswer
    /\ ManagersUnused

\* schtasks prints one more character
QueryPrints ==
    /\ listed = NoList
    /\ ~query.err
    /\ Len(query.output) < MaxQueryLen
    /\ \E c \in QueryAlphabet : query' = [query EXCEPT !.output = Append(@, c)]
    /\ UNCHANGED <<listed, crontab, cronOp, managerVars, nginxVars, backupVars, race>>

\* schtasks ends with an error
QueryFails ==
    /\ listed = NoList
    /\ ~query.err
    /\ query' = [query EXCEPT !.err = TRUE]
    /\ UNCHANGED <<listed, crontab, cronOp, managerVars, nginxVars, backupVars, race>>

\* WindowsScheduler.List()
List ==
    /\ listed = NoList
    /\ listed' = [set |-> TRUE, result |-> ListOf(query)]
    /\ UNCHANGED <<query, crontab, cronOp, managerVars, nginxVars, backupVars, race>>

NextWindows ==
    \/ QueryPrints
    \/ QueryFails
    \/ List

SpecWindows == InitWindows /\ [][NextWindows]_vars

(***************************************************************************)
(* Two invocations of Manager.Install for one domain, running side by side *)
(* on one store, each on a Manager object of its own.  The file operations *)
(* of one stage are taken as one step.                                     *)
(***************************************************************************)
RaceManager == NewManagerObj(DomA)

\* rsa.GenerateKey in generatePrivateKey and in generateSelfSignedCert: four
\* calls, four keys
raceKey(p) == <<dirName(RaceManager), p>>
raceSignerKey(p) == <<dirName(RaceManager), p + Cardinality(RaceProcs)>>

InitRace ==
    /\ race = RaceIdle
    /\ archive = NoArchive
    /\ otherFiles = <<>>
    /\ backupOp = NoBackupOp
    /\ crontab = NoCrontab
    /\ cronOp = NoCronOp
    /\ query = NoQuery
    /\ listed = NoList
    /\ config = NoConfig
    /\ enabled = NoAnswer
    /\ ManagersUnused

\* return err
raceReturn(p, err) ==
    race' = [race EXCEPT ![p] = [pc |-> "returned", privateKey |-> NoKey,
                                 csr |-> NoCSR, cert |-> NoCert, result |-> err]]

raceFrame ==
    UNCHANGED <<now, umask, cli, mgr, op, pc, result, privateKey, csr, cert, calls, info,
                parsed, atEntry, nginxVars, schedulerVars, backupVars>>

\* Install is called: stage 1
concurrentInstall(p) ==
    /\ race[p].pc = "idle"
    /\ \E fault \in {"ok", "MkdirError"} :
           IF fault = "MkdirError"
               THEN /\ raceReturn(p, "CreateCertDirFailed")
                    /\ store' = store
               ELSE /\ store' = createCertDir(store, RaceManager)
                    /\ race' = [race EXCEPT ![p].pc = "generatePrivateKey",
                                            ![p].result = "pending"]
    /\ raceFrame

\* a generatePrivateKey that waits while the other invocation is between
\* its key and its certificate file
concurrentGeneratePrivateKey_Locked(p) ==
    /\ race[p].pc = "generatePrivateKey"
    /\ \A q \in RaceProcs \ {p} :
           race[q].pc \notin {"createCSR", "obtainCertificate", "saveCertificate"}
    /\ \E fault \in {"ok", "CreateError"} :
           /\ store' = keyFileWritten(store, RaceManager, raceKey(p), umask, fault)
           /\ IF fault = "ok"
                  THEN race' = [race EXCEPT ![p].pc = "createCSR",
                                            ![p].privateKey = raceKey(p)]
                  ELSE raceReturn(p, "GeneratePrivateKeyFailed")
    /\ raceFrame

\* stage 2
concurrentGeneratePrivateKey(p) ==
    /\ race[p].pc = "generatePrivateKey"
    /\ \E fault \in {"ok", "CreateError"} :
           /\ store' = keyFileWritten(store, RaceManager, raceKey(p), umask, fault)
           /\ IF fault = "ok"
                  THEN race' = [race EXCEPT ![p].pc = "createCSR",
                                            ![p].privateKey = raceKey(p)]
                  ELSE raceReturn(p, "GeneratePrivateKeyFailed")
    /\ raceFrame

\* stage 3
concurrentCreateCSR(p) ==
    /\ race[p].pc = "createCSR"
    /\ \E fault \in {"ok", "CreateCSRError"} :
           IF fault = "ok"
               THEN race' = [race EXCEPT
                                ![p].pc = "obtainCertificate",
                                ![p].csr = createCSROf(RaceManager, race[p].privateKey)]
               ELSE raceReturn(p, "CreateCSRFailed")
    /\ store' = store
    /\ raceFrame

\* stage 4
concurrentObtainCertificate(p) ==
    /\ race[p].pc = "obtainCertificate"
    /\ \E fault \in {"ok", "CAError"} :
           IF obtainRefuses(RaceManager) \/ fault # "ok"
               THEN raceReturn(p, "ObtainCertificateFailed")
               ELSE race' = [race EXCEPT
                                ![p].pc = "saveCertificate",
                                ![p].cert = generateSelfSignedCert(race[p].csr, now,
                                                raceSignerKey(p))]
    /\ store' = store
    /\ raceFrame

\* stage 5
concurrentSaveCertificate(p) ==
    /\ race[p].pc = "saveCertificate"
    /\ \E fault \in {"ok", "CreateError"} :
           /\ store' = certFileWritten(store, RaceManager, race[p].cert, umask, fault)
           /\ IF saveFails(fault)
                  THEN raceReturn(p, "SaveCertificateFailed")
                  ELSE race' = [race EXCEPT ![p].pc = "configureWebServer"]
    /\ raceFrame

\* stage 6 and the return
concurrentConfigureWebServer(p) ==
    /\ race[p].pc = "configureWebServer"
    /\ IF configureWebServerFails(RaceManager)
           THEN raceReturn(p, "ConfigureWebServerFailed")
           ELSE raceReturn(p, NoError)
    /\ store' = store
    /\ raceFrame

NextRace ==
    \E p \in RaceProcs :
        \/ concurrentInstall(p)
        \/ concurrentGeneratePrivateKey(p)
        \/ concurrentCreateCSR(p)
        \/ concurrentObtainCertificate(p)
        \/ concurrentSaveCertificate(p)
        \/ concurrentConfigureWebServer(p)

SpecRace == InitRace /\ [][NextRace]_vars

(***************************************************************************)
(* internal/backup: Export and Import.  A path of the machine is the       *)
(* sequence of its segments, a segment a sequence of symbols; the name of  *)
(* an archive entry or of an archive file is a sequence of symbols with    *)
(* "/" and "." among them.  The domain directories of the certificate root *)
(* are the store; every other file of the machine is in otherFiles.        *)
(***************************************************************************)
\* config.GetCertDir(), config.GetConfigDir(), os.UserHomeDir()
CertDirPath == << <<"etc">>, <<"autocert">>, <<"certs">> >>
ConfigDirPath == << <<"etc">>, <<"autocert">> >>
HomeDirPath == << <<"home">>, <<"u">> >>

CertsPrefix == <<"certs", "/">>
ConfigPrefix == <<"config", "/">>
MetadataName == <<"metadata.json">>
YamlSuffix == <<".yaml">>

\* the symbols whose first character is a dot
DotSymbols == {".", "..", ".autocert", ".yaml"}

\* strings.TrimPrefix
TrimPrefix(str, prefix) ==
    IF HasPrefix(str, prefix) THEN SubSeq(str, Len(prefix) + 1, Len(str)) ELSE str

\* strings.HasSuffix
HasSuffix(str, suffix) ==
    /\ Len(str) >= Len(suffix)
    /\ SubSeq(str, Len(str) - Len(suffix) + 1, Len(str)) = suffix

\* strings.ToLower on the symbols of the model
ToLowerSymbol(c) ==
    CASE c = "ZIP" -> "zip"
      [] c = "GZ" -> "gz"
      [] c = "TAR" -> "tar"
      [] OTHER -> c

ToLower(str) == [i \in 1..Len(str) |-> ToLowerSymbol(str[i])]

\* filepath.Clean of a rooted path, segment by segment: empty and "."
\* segments go, ".." takes the segment before it, at the root nothing
RECURSIVE cleanSegments(_, _)
cleanSegments(segments, path) ==
    IF segments = <<>> THEN path
    ELSE IF Head(segments) \in {<<>>, <<".">>}
        THEN cleanSegments(Tail(segments), path)
    ELSE IF Head(segments) \in {<<"..">>, <<".", ".">>}
        THEN cleanSegments(Tail(segments),
                 IF path = <<>> THEN <<>> ELSE SubSeq(path, 1, Len(path) - 1))
    ELSE cleanSegments(Tail(segments), Append(path, Head(segments)))

\* filepath.Join(dir, rel) for a clean rooted dir
filepathJoin(dirPath, rel) == cleanSegments(Split(rel, "/"), dirPath)

\* filepath.Ext: from the last dot of the name on, empty without a dot
filepathExt(name) ==
    IF \E i \in 1..Len(name) : name[i] = "."
        THEN SubSeq(name,
                 CHOOSE i \in 1..Len(name) :
                     name[i] = "." /\ \A j \in (i + 1)..Len(name) : name[j] # ".",
                 Len(name))
    ELSE <<>>

\* Manager.getTargetPath
getTargetPath(archivePath) ==
    IF HasPrefix(archivePath, CertsPrefix)
        THEN [err |-> FALSE,
              path |-> filepathJoin(CertDirPath, TrimPrefix(archivePath, CertsPrefix))]
    ELSE IF HasPrefix(archivePath, ConfigPrefix)
        THEN IF /\ TrimPrefix(archivePath, ConfigPrefix) # <<>>
                /\ Head(TrimPrefix(archivePath, ConfigPrefix)) \in DotSymbols
                 THEN [err |-> FALSE,
                       path |-> filepathJoin(HomeDirPath,
                                    TrimPrefix(archivePath, ConfigPrefix))]
             ELSE [err |-> FALSE,
                   path |-> filepathJoin(ConfigDirPath,
                                TrimPrefix(archivePath, ConfigPrefix))]
    ELSE [err |-> TRUE]

\* the path of a file of the store
storePath(dir, name) == CertDirPath \o <<dir, <<name>>>>

\* a path that names a file of a domain directory
inStore(path) ==
    /\ HasPrefix(path, CertDirPath)
    /\ Len(path) = Len(CertDirPath) + 2
    /\ Len(path[Len(path)]) = 1

\* the files and the directories of the machine
filePaths(st, fl) ==
    DOMAIN fl \cup UNION {{storePath(dir, name) : name \in DOMAIN st[dir]} : dir \in DOMAIN st}

properPrefixes(path) == {SubSeq(path, 1, k) : k \in 0..(Len(path) - 1)}

directories(st, fl) ==
    UNION {properPrefixes(path) : path \in filePaths(st, fl)}
        \cup properPrefixes(CertDirPath) \cup {CertDirPath}
        \cup properPrefixes(HomeDirPath) \cup {HomeDirPath}
        \cup {CertDirPath \o <<dir>> : dir \in DOMAIN st}

\* os.MkdirAll of the parent and os.Create of the target both succeed
canCreate(st, fl, path) ==
    /\ path \notin directories(st, fl)
    /\ properPrefixes(path) \cap filePaths(st, fl) = {}

\* the machine after os.MkdirAll, os.Create, io.Copy and, for a tar entry,
\* os.Chmod with the mode of the header
fileExtracted(st, fl, path, entry, format, mask) ==
    IF inStore(path)
        THEN [store |->
                 IF format = "tar.gz"
                     THEN Chmod(WriteData(
                              OpenTrunc(MkdirAll(st, path[Len(path) - 1]),
                                  path[Len(path) - 1], path[Len(path)][1], ModeCreate, mask),
                              path[Len(path) - 1], path[Len(path)][1], entry.data),
                            path[Len(path) - 1], path[Len(path)][1], entry.mode)
                 ELSE WriteData(
                          OpenTrunc(MkdirAll(st, path[Len(path) - 1]),
                              path[Len(path) - 1], path[Len(path)][1], ModeCreate, mask),
                          path[Len(path) - 1], path[Len(path)][1], entry.data),
              files |-> fl]
    ELSE [store |-> st,
          files |->
              [q \in DOMAIN fl \cup {path} |->
                  IF q # path THEN fl[q]
                  ELSE [data |-> entry.data,
                        mode |-> IF format = "tar.gz" THEN entry.mode
                                 ELSE IF path \in DOMAIN fl THEN fl[path].mode
                                 ELSE AndNot(ModeCreate, mask, 9)]]]

\* extractFileFromTar / extractFileFromZip: an entry that is the metadata,
\* has no target or cannot be created changes nothing
extractFile(st, fl, entry, format, mask) ==
    IF entry.Name = MetadataName THEN [store |-> st, files |-> fl]
    ELSE IF getTargetPath(entry.Name).err THEN [store |-> st, files |-> fl]
    ELSE IF ~canCreate(st, fl, getTargetPath(entry.Name).path)
        THEN [store |-> st, files |-> fl]
    ELSE fileExtracted(st, fl, getTargetPath(entry.Name).path, entry, format, mask)

\* the loop of importTarGz / importZip over the entries: a failed entry is
\* logged and the loop goes on
RECURSIVE extractAll(_, _, _, _, _)
extractAll(st, fl, entries, format, mask) ==
    IF entries = <<>> THEN [store |-> st, files |-> fl]
    ELSE extractAll(extractFile(st, fl, Head(entries), format, mask).store,
             extractFile(st, fl, Head(entries), format, mask).files,
             Tail(entries), format, mask)

\* the reader Import picks from the name of the file
importReader(inputFile) ==
    IF filepathExt(ToLower(inputFile)) = <<".", "gz">>
        THEN IF HasSuffix(inputFile, <<".", "tar", ".", "gz">>) THEN "tar.gz"
             ELSE "unsupported"
    ELSE IF filepathExt(ToLower(inputFile)) = <<".", "zip">> THEN "zip"
    ELSE "unsupported"

\* Manager.Import: gzip.NewReader and zip.OpenReader fail on a file of the
\* other format
ImportOf(arch, inputFile, st, fl, mask) ==
    IF ~arch.exists \/ arch.name # inputFile
        THEN [err |-> "ImportFileMissing", store |-> st, files |-> fl]
    ELSE IF importReader(inputFile) = "unsupported"
        THEN [err |-> "UnsupportedFileFormat", store |-> st, files |-> fl]
    ELSE IF importReader(inputFile) # arch.format
        THEN [err |-> "ArchiveUnreadable", store |-> st, files |-> fl]
    ELSE [err |-> NoError,
          store |-> extractAll(st, fl, arch.entries, arch.format, mask).store,
          files |-> extractAll(st, fl, arch.entries, arch.format, mask).files]

\* addDomainFiles: filepath.Join("certs", domain, entry.Name())
certArchivePath(dir, name) == CertsPrefix \o dir \o <<"/", name>>

\* the names addConfigFiles looks for in the home directory
HomeConfigFiles == {<<".autocert", ".yaml">>, <<"autocert", ".yaml">>, <<"config", ".yaml">>}

\* addConfigFiles: the *.yaml files of the configuration directory
configDirFiles(fl) ==
    {path \in DOMAIN fl :
        /\ HasPrefix(path, ConfigDirPath)
        /\ Len(path) = Len(ConfigDirPath) + 1
        /\ HasSuffix(path[Len(path)], YamlSuffix)}

homeFiles(fl) ==
    {path \in DOMAIN fl :
        /\ HasPrefix(path, HomeDirPath)
        /\ Len(path) = Len(HomeDirPath) + 1
        /\ path[Len(path)] \in HomeConfigFiles}

\* collectFiles: archive path -> the file; a home file takes the place of a
\* file of the configuration directory with the same archive path
collectFiles(st, fl) ==
    [archivePath \in
        UNION {{certArchivePath(dir, name) : name \in DOMAIN st[dir]} : dir \in DOMAIN st}
            \cup {ConfigPrefix \o path[Len(path)] : path \in configDirFiles(fl)}
            \cup {ConfigPrefix \o path[Len(path)] : path \in homeFiles(fl)}
     |->
        IF \E path \in homeFiles(fl) : archivePath = ConfigPrefix \o path[Len(path)]
            THEN fl[CHOOSE path \in homeFiles(fl) :
                        archivePath = ConfigPrefix \o path[Len(path)]]
        ELSE IF \E path \in configDirFiles(fl) : archivePath = ConfigPrefix \o path[Len(path)]
            THEN fl[CHOOSE path \in configDirFiles(fl) :
                        archivePath = ConfigPrefix \o path[Len(path)]]
        ELSE LET dn == CHOOSE dn \in UNION {{<<dir, name>> : name \in DOMAIN st[dir]} :
                                             dir \in DOMAIN st} :
                           archivePath = certArchivePath(dn[1], dn[2])
             IN  st[dn[1]][dn[2]]]

\* the entries in the order the writer got them: the order of a map range
RECURSIVE entriesOf(_, _)
entriesOf(collected, names) ==
    IF names = {} THEN <<>>
    ELSE LET first == CHOOSE n \in names : TRUE
         IN  <<[Name |-> first, data |-> collected[first].data,
                mode |-> collected[first].mode]>>
                 \o entriesOf(collected, names \ {first})

\* addMetadataToTar / addMetadataToZip
metadataEntry == [Name |-> MetadataName, data |-> TextData(<<"metadata">>), mode |-> ModeDomainsList]

\* the container Export writes for the format option
exportWriter(format) ==
    IF ToLowerSymbol(format) \in {"tar.gz", "tgz"} THEN "tar.gz"
    ELSE IF ToLowerSymbol(format) = "zip" THEN "zip"
    ELSE "unsupported"

\* Manager.Export with Domain = "": exportTarGz / exportZip write the
\* metadata and the collected files to the output file
ExportOf(arch, st, fl, format, outputFile) ==
    IF exportWriter(format) = "unsupported"
        THEN [err |-> "UnsupportedExportFormat", archive |-> arch]
    ELSE [err |-> NoError,
          archive |->
              [exists |-> TRUE,
               name |-> outputFile,
               format |-> exportWriter(format),
               entries |-> <<metadataEntry>>
                              \o entriesOf(collectFiles(st, fl), DOMAIN collectFiles(st, fl)),
               exported |-> [set |-> TRUE, store |-> st]]]

\* the export command's default output name and two other names
DefaultOutputFile == <<"autocert-backup", ".", "tar", ".", "gz">>
OutputFiles == {DefaultOutputFile, <<"b", ".", "zip">>, <<"b", ".", "tgz">>}

\* the values of --format
ExportFormats == {"tar.gz", "tgz", "zip", "ZIP", "rar"}

\* entries of archives made elsewhere
CraftedNames ==
    {certArchivePath(DomA, CertFile),
     <<"certs", "/", "..", "/", "..", "/", "x">>,
     <<"config", "/", "..", "/", "x">>,
     <<"other", "/", "x">>,
     <<"config", "/", "c", ".yaml">>}

craftedEntry(name) == [Name |-> name, data |-> TextData(<<"x">>), mode |-> ModeDomainsList]

CraftedEntryLists ==
    {<<craftedEntry(name)>> : name \in CraftedNames}
        \cup {<<craftedEntry(<<"other", "/", "x">>),
                craftedEntry(certArchivePath(DomA, CertFile))>>}

CraftedArchives ==
    {[exists |-> TRUE, name |-> <<"b", ".", "zip">>, format |-> "zip",
      entries |-> entries, exported |-> [set |-> FALSE]] : entries \in CraftedEntryLists}
        \cup
    {[exists |-> TRUE, name |-> DefaultOutputFile, format |-> "tar.gz",
      entries |-> entries, exported |-> [set |-> FALSE]] : entries \in CraftedEntryLists}

\* the store after a first Install for the domain in which no stage failed
installedStore(st, domain, t, mask) ==
    certFileWritten(
        keyFileWritten(createCertDir(st, NewManagerObj(domain)), NewManagerObj(domain),
            <<domain, 1>>, mask, "ok"),
        NewManagerObj(domain),
        generateSelfSignedCert(createCSROf(NewManagerObj(domain), <<domain, 1>>), t,
            <<domain, 2>>),
        mask, "ok")

InitBackup ==
    /\ archive = NoArchive
    /\ otherFiles = <<>>
    /\ backupOp = NoBackupOp
    /\ race = RaceIdle
    /\ crontab = NoCrontab
    /\ cronOp = NoCronOp
    /\ query = NoQuery
    /\ listed = NoList
    /\ config = NoConfig
    /\ enabled = NoAnswer
    /\ ManagersUnused

backupFrame ==
    UNCHANGED <<now, umask, cli, mgr, op, pc, result, privateKey, csr, cert, calls, info,
                parsed, atEntry, nginxVars, schedulerVars, race>>

\* a certificate is installed for a domain that has none
InstallDone ==
    /\ \E domain \in {DomA} :
           /\ ~DirExists(store, domain)
           /\ store' = installedStore(store, domain, now, umask)
    /\ backupOp' = NoBackupOp
    /\ UNCHANGED <<archive, otherFiles>>
    /\ backupFrame

\* the archive is taken to a machine on which AutoCert has stored nothing
NewMachine ==
    /\ store # <<>> \/ otherFiles # <<>>
    /\ store' = <<>>
    /\ otherFiles' = <<>>
    /\ backupOp' = NoBackupOp
    /\ UNCHANGED archive
    /\ backupFrame

\* the user writes a configuration file
WriteConfigFile ==
    /\ \E path \in {HomeDirPath \o << <<".autocert", ".yaml">> >>} :
           /\ path \notin DOMAIN otherFiles
           /\ otherFiles' =
                  [q \in DOMAIN otherFiles \cup {path} |->
                      IF q = path
                          THEN [data |-> TextData(<<"y">>),
                                mode |-> AndNot(ModeDomainsList, umask, 9)]
                      ELSE otherFiles[q]]
    /\ backupOp' = NoBackupOp
    /\ UNCHANGED <<store, archive>>
    /\ backupFrame

\* an archive made elsewhere is put in the place of the archive file
ReceiveArchive ==
    /\ \E arch \in CraftedArchives : archive' = arch
    /\ backupOp' = NoBackupOp
    /\ UNCHANGED <<store, otherFiles>>
    /\ backupFrame

\* autocert export --format <format> --output <outputFile>
Export ==
    /\ \E format \in ExportFormats, outputFile \in OutputFiles :
           /\ archive' = ExportOf(archive, store, otherFiles, format, outputFile).archive
           /\ backupOp' =
                  [op |-> "Export", format |-> format, file |-> outputFile,
                   err |-> ExportOf(archive, store, otherFiles, format, outputFile).err]
    /\ UNCHANGED <<store, otherFiles>>
    /\ backupFrame

\* autocert import <inputFile>
Import ==
    /\ \E inputFile \in OutputFiles :
           /\ store' = ImportOf(archive, inputFile, store, otherFiles, umask).store
           /\ otherFiles' = ImportOf(archive, inputFile, store, otherFiles, umask).files
           /\ backupOp' =
                  [op |-> "Import", file |-> inputFile,
                   err |-> ImportOf(archive, inputFile, store, otherFiles, umask).err]
    /\ UNCHANGED archive
    /\ backupFrame

NextBackup ==
    \/ InstallDone
    \/ NewMachine
    \/ WriteConfigFile
    \/ ReceiveArchive
    \/ Export
    \/ Import

SpecBackup == InitBackup /\ [][NextBackup]_vars





(***************************************************************************)
(* Properties                                                              *)
(***************************************************************************)
\* the errors runInstall returns for the command line itself
ConfigErrors ==
    {"NoDomainGiven", "EmptyDomain", "MalformedDomain", "NoWebServer",
     "MultipleWebServers", "WildcardRequiresDNS", "InvalidChallengeConfiguration"}

\* an install command has been started (and may have ended)
CommandRun == cli # NoCli

\* the command line asks for a wildcard certificate
WildcardAsked == CommandRun /\ hasWildcardIn(domainListOf(cli))

\* the command line passes parseDomains and the web server check
DomainsAndServerValid(flags) ==
    /\ parseDomains(flags).err = NoError
    /\ webServerCount(flags) = 1

\* C1 as stated: for a domain set with a wildcard entry, whatever the mode
\* flags (the domains and the web server flags being valid), the command
\* either fails with the wildcard-requires-DNS error before any manager is
\* invoked, or hands DNS to the manager.
C1_WildcardErrorOrDNS ==
    (WildcardAsked /\ DomainsAndServerValid(cli)) =>
        \/ /\ result = "WildcardRequiresDNS"
           /\ mgr = NoMgr
           /\ calls.install = 0
        \/ /\ mgr # NoMgr
           /\ mgr.challengeType = ChallengeDNS

\* C1 as amended: for a domain set with a wildcard entry the command never
\* hands Webroot or Standalone to a manager: it fails before any manager is
\* made, with the wildcard-requires-DNS error when --dns is not set and with
\* the invalid-challenge-configuration error when --dns is set together with
\* --standalone or --webroot, or it hands DNS to the manager (the domains
\* and the web server flags being valid; if they are not, it fails with
\* their configuration error, again before any manager is made).
C1_WildcardNeverHttpChallenge ==
    WildcardAsked =>
        /\ mgr # NoMgr => mgr.challengeType = ChallengeDNS
        /\ mgr = NoMgr => result \in ConfigErrors /\ calls.install = 0
        /\ DomainsAndServerValid(cli) =>
               /\ result = "WildcardRequiresDNS" <=> ~cli.dns
               /\ result = "InvalidChallengeConfiguration"
                      <=> (cli.dns /\ (cli.standalone \/ cli.webroot # <<>>))
               /\ mgr # NoMgr <=> (cli.dns /\ ~cli.standalone /\ cli.webroot = <<>>)
        /\ ~DomainsAndServerValid(cli) =>
               /\ mgr = NoMgr
               /\ result \notin {"WildcardRequiresDNS", "InvalidChallengeConfiguration"}

\* a wildcard command was run to the end and its manager got DNS
C1_Witness ==
    /\ WildcardAsked
    /\ mgr # NoMgr
    /\ mgr.challengeType = ChallengeDNS
    /\ pc = "exit"
    /\ result = NoError
    /\ calls.ca = 1

\* a step in which Install is called on the manager object
InstallCalled ==
    /\ pc = "idle"
    /\ cli = NoCli
    /\ mgr # NoMgr
    /\ op' = "Install"
    /\ calls'.install = 1

\* C2 as stated: for both managers, Install on a domain set with a wildcard
\* entry while the challenge type is Webroot or Standalone fails and creates
\* or modifies nothing in the store.
C2_WildcardInstallFailsWithoutWrite ==
    [][(/\ InstallCalled
        /\ hasWildcardDomain(mgr)
        /\ mgr.challengeType \in {ChallengeWebroot, ChallengeStandalone})
       => (/\ store' = store
           /\ pc' = "idle"
           /\ result' \notin {NoError, "pending"})]_vars

\* C3: MultiDomainManager.Install checks the wildcard constraint itself on
\* every call: with a wildcard entry and a challenge type other than DNS at
\* the moment of the call it returns the mismatch error, and neither the
\* directory is created nor a key generated nor a certificate asked for.
C3_MultiInstallRechecksWildcard ==
    [][(/\ InstallCalled
        /\ mgr.kind = "multi"
        /\ hasWildcardDomain(mgr)
        /\ mgr.challengeType # ChallengeDNS)
       => (/\ result' = "WildcardChallengeMismatch"
           /\ pc' = "idle"
           /\ store' = store
           /\ privateKey' = NoKey
           /\ calls'.ca = 0)]_vars

\* Install was refused for the mismatch after SetChallengeType changed the
\* type of a manager whose certificate is in the store
C3_Witness ==
    /\ op = "Install"
    /\ mgr.kind = "multi"
    /\ hasWildcardDomain(mgr)
    /\ mgr.challengeType = ChallengeStandalone
    /\ result = "WildcardChallengeMismatch"
    /\ FileExists(store, dirName(mgr), CertFile)

\* the certificate in the manager's cert.pem, when the file holds one
HasStoredCert(m) ==
    /\ FileExists(store, dirName(m), CertFile)
    /\ store[dirName(m)][CertFile].data.kind = "pem"
    /\ store[dirName(m)][CertFile].data.bytes.der = "cert"

StoredCert(m) == store[dirName(m)][CertFile].data.bytes

\* a step in which Renew is called on the manager object
RenewCalled ==
    /\ pc = "idle"
    /\ cli = NoCli
    /\ mgr # NoMgr
    /\ op' = "Renew"

\* C4: Renew returns success without entering Install, asking for a
\* certificate or touching the store when NotAfter - now is more than 30
\* days; at 30 days or less (expired included) it enters Install, and a
\* Renew that returned success after entering Install has obtained and
\* stored a certificate issued now.
C4_RenewThirtyDayRule ==
    /\ [][(RenewCalled /\ HasStoredCert(mgr))
          => IF StoredCert(mgr).notAfter - now > 30
                 THEN /\ result' = NoError
                      /\ pc' = "idle"
                      /\ store' = store
                      /\ calls' = NoCalls
                 ELSE /\ calls'.install = 1
                      /\ \/ pc' = "generatePrivateKey"
                         \/ result' = "CreateCertDirFailed"]_vars
    /\ []((op = "Renew" /\ pc = "idle" /\ result = NoError /\ calls.install = 1)
          => (/\ calls.ca = 1
              /\ HasStoredCert(mgr)
              /\ StoredCert(mgr).notAfter = now + 90))

\* Renew entered Install for a certificate with exactly 30 days left
C4_Witness ==
    /\ op = "Renew"
    /\ pc = "generatePrivateKey"
    /\ info.err = NoError
    /\ info.ExpiryDate - now = 30
    /\ calls.install = 1

\* C5 as stated: the multi-domain manager offers Renew and GetCertInfo like
\* the single-domain manager, so that a certificate it installed for more
\* than one domain can be queried and renewed.
C5_MultiManagerOffersRenewAndInfo ==
    (/\ mgr.kind = "multi"
     /\ Len(mgr.domains) > 1
     /\ op = "Install"
     /\ pc = "idle"
     /\ result = NoError)
    => {"Renew", "GetCertInfo"} \subseteq Methods(mgr.kind)

\* C6 as stated: with more than one mode flag (the domains and the web
\* server flags being valid) the command fails with the
\* invalid-challenge-configuration error, no manager is created and Install
\* is never called.
C6_ManyModesInvalidChallenge ==
    (CommandRun /\ challengeCount(cli) > 1 /\ DomainsAndServerValid(cli)) =>
        /\ result = "InvalidChallengeConfiguration"
        /\ mgr = NoMgr
        /\ calls.install = 0

\* C6 as amended: with more than one mode flag the command fails with a
\* configuration error, no manager is created and Install is never called;
\* the domains and the web server flags being valid, the error is the
\* invalid-challenge-configuration error, except that it is the
\* wildcard-requires-DNS error when a domain is a wildcard and --dns is not
\* among the flags set.
C6_ManyModesRejected ==
    (CommandRun /\ challengeCount(cli) > 1) =>
        /\ result \in ConfigErrors
        /\ mgr = NoMgr
        /\ calls.install = 0
        /\ pc = "exit"
        /\ DomainsAndServerValid(cli) =>
               result = IF hasWildcardIn(domainListOf(cli)) /\ ~cli.dns
                            THEN "WildcardRequiresDNS"
                            ELSE "InvalidChallengeConfiguration"

\* --standalone and --dns together on an otherwise valid command line, on a
\* machine that holds a certificate
C6_Witness ==
    /\ CommandRun
    /\ cli.standalone
    /\ cli.dns
    /\ result = "InvalidChallengeConfiguration"
    /\ store # <<>>

\* C7: with at most one mode flag and no wildcard domain the manager gets
\* DNS if --dns is set, Standalone if --standalone is set and Webroot
\* otherwise, one type per install.
C7_ChallengeSelection ==
    (/\ CommandRun
     /\ mgr # NoMgr
     /\ challengeCount(cli) <= 1
     /\ ~hasWildcardIn(domainListOf(cli)))
    => /\ mgr.challengeType \in ChallengeTypes
       /\ mgr.challengeType = ChallengeDNS <=> cli.dns
       /\ mgr.challengeType = ChallengeStandalone <=> cli.standalone
       /\ mgr.challengeType = ChallengeWebroot <=> (~cli.dns /\ ~cli.standalone)

\* a --standalone command for two plain domains went through
C7_Witness ==
    /\ CommandRun
    /\ cli.standalone
    /\ mgr # NoMgr
    /\ mgr.kind = "multi"
    /\ mgr.challengeType = ChallengeStandalone
    /\ result = NoError
    /\ pc = "exit"

\* the characters of a string that are a star
RECURSIVE StarCount(_)
StarCount(s) ==
    IF s = <<>> THEN 0
    ELSE (IF Head(s) = "*" THEN 1 ELSE 0) + StarCount(Tail(s))

\* more than one star, or a whitespace character, in the trimmed domain
Malformed(d) ==
    \/ StarCount(d) > 1
    \/ \E i \in 1..Len(d) : d[i] \in {" ", "\t"}

\* C8 as stated: parseDomains rejects every command line in which a domain,
\* after its ends were trimmed, has more than one star or a whitespace
\* character.
C8_MalformedDomainRejected ==
    (/\ op = "parseDomains"
     /\ \E i \in 1..Len(domainListOf(cli)) : Malformed(domainListOf(cli)[i]))
    => result \in {"MalformedDomain", "EmptyDomain"}

\* the command line has one of the configuration errors
Misconfigured(flags) ==
    \/ flags.domain = <<>> /\ flags.domains = <<>>
    \/ \E i \in 1..Len(domainListOf(flags)) :
           \/ domainListOf(flags)[i] = <<>>
           \/ validateDomainName(domainListOf(flags)[i]) # NoError
    \/ webServerCount(flags) # 1
    \/ hasWildcardIn(domainListOf(flags)) /\ ~flags.dns
    \/ challengeCount(flags) > 1

C11_InfoAfterInstall ==
    /\ [][(/\ pc = "idle"
           /\ op = "Install"
           /\ result = NoError
           /\ op' = "GetCertInfo")
          => (/\ info'.err = NoError
              /\ info'.IsValid
              /\ info'.ExpiryDate = now + 90
              /\ result' = NoError)]_vars
    /\ []((op = "GetCertInfo" /\ result = NoError)
          => (info.IsValid <=> now < StoredCert(mgr).notAfter))

\* GetCertInfo, right after the Install of a later day, reported the
\* certificate of that day
C11_Witness ==
    /\ op = "GetCertInfo"
    /\ now > 0
    /\ atEntry = NoEntry
    /\ info.err = NoError
    /\ info.IsValid
    /\ info.ExpiryDate = now + 90
    /\ StoredCert(mgr).notBefore = now

\* the files of the manager's directory
FilesOf(m) == IF DirExists(store, dirName(m)) THEN DOMAIN store[dirName(m)] ELSE {}

\* an Install has returned success
InstallSucceeded ==
    /\ op = "Install"
    /\ pc = "idle"
    /\ result = NoError

\* C12 as stated: when Install is called a second time right after an
\* Install of the same manager that returned success, and returns success
\* too, the directory holds the same set of files as after the first call.
C12_InstallKeepsFileSet ==
    (InstallSucceeded /\ atEntry.rerun) => FilesOf(mgr) = atEntry.files

\* the directory name the claim gives for a domain set
ExpectedDir(domainList) ==
    IF Len(domainList) = 1 THEN domainList[1]
    ELSE domainList[1] \o <<"_", "s", "a", "n">>

\* the step writes domains.txt in some directory
DomainsListTouched ==
    \E d \in DOMAIN store' :
        /\ DomainsFile \in DOMAIN store'[d]
        /\ \/ d \notin DOMAIN store
           \/ DomainsFile \notin DOMAIN store[d]
           \/ store'[d][DomainsFile] # store[d][DomainsFile]

\* C13 as stated: the directory is the primary domain for a set of one
\* domain and <primary>_san for a larger set; the directory a manager
\* creates and its key.pem, cert.pem, chain.pem and domains.txt paths all lie
\* in it; domains.txt is written only for a set of more than one domain, and
\* then holds the domains one per line in input order.
C13_StoreLayout ==
    /\ [](mgr # NoMgr =>
            /\ dirName(mgr) = ExpectedDir(mgr.domains)
            /\ getKeyPath(mgr) = <<ExpectedDir(mgr.domains), "key.pem">>
            /\ getCertPath(mgr) = <<ExpectedDir(mgr.domains), "cert.pem">>
            /\ getChainPath(mgr) = <<ExpectedDir(mgr.domains), "chain.pem">>
            /\ getDomainsListPath(mgr) = <<ExpectedDir(mgr.domains), "domains.txt">>)
    /\ [][(mgr # NoMgr /\ mgr' = mgr) =>
            /\ DOMAIN store' \ DOMAIN store \subseteq {ExpectedDir(mgr.domains)}
            /\ DomainsListTouched => Len(mgr.domains) > 1
            /\ (InstallSucceeded' /\ Len(mgr.domains) > 1
                    /\ FileExists(store', ExpectedDir(mgr.domains), DomainsFile))
                   => store'[ExpectedDir(mgr.domains)][DomainsFile].data
                          = TextData(Join(mgr.domains, <<"\n">>))]_vars

\* C14 as stated: whenever the Install of a multi-domain manager for more
\* than one domain has returned success, domains.txt is in the directory
\* and holds the domains of the set in input order, and the certificate in
\* cert.pem names every domain of the set.
C14_SuccessMeansDomainsList ==
    (InstallSucceeded /\ mgr.kind = "multi" /\ Len(mgr.domains) > 1) =>
        /\ FileExists(store, dirName(mgr), DomainsFile)
        /\ store[dirName(mgr)][DomainsFile].data = TextData(Join(mgr.domains, <<"\n">>))
        /\ HasStoredCert(mgr)
        /\ \A i \in 1..Len(mgr.domains) :
               \E j \in 1..Len(StoredCert(mgr).DNSNames) :
                   StoredCert(mgr).DNSNames[j] = mgr.domains[i]

\* C15: when the web server step fails, Install returns the error of that
\* stage, not success, and key.pem and cert.pem stay in the store as the
\* earlier stages of this call wrote them.
C15_WebServerFailureKeepsFiles ==
    [][(pc = "configureWebServer" /\ mgr.webServerType \notin {0, 1, 2})
       => (/\ result' = "ConfigureWebServerFailed"
           /\ pc' \in {"idle", "exit"}
           /\ store' = store
           /\ FileExists(store', dirName(mgr), KeyFile)
           /\ store'[dirName(mgr)][KeyFile].data
                  = pemEncode("RSA PRIVATE KEY", MarshalPKCS1PrivateKey(privateKey))
           /\ FileExists(store', dirName(mgr), CertFile)
           /\ store'[dirName(mgr)][CertFile].data = pemEncode("CERTIFICATE", cert))]_vars

\* an Install of the multi-domain manager failed at the web server step, with
\* the certificate of this call in the store
C15_Witness ==
    /\ op = "Install"
    /\ pc = "idle"
    /\ mgr.kind = "multi"
    /\ result = "ConfigureWebServerFailed"
    /\ HasStoredCert(mgr)
    /\ StoredCert(mgr).notBefore = now
    /\ now > 0

\* C16 as stated: after every successful Install, whatever the umask and
\* whether the files were there before or not, key.pem has mode 0600 and
\* cert.pem has mode 0644.
C16_ModesAfterInstall ==
    InstallSucceeded =>
        /\ FileExists(store, dirName(mgr), KeyFile)
        /\ store[dirName(mgr)][KeyFile].mode = 384
        /\ FileExists(store, dirName(mgr), CertFile)
        /\ store[dirName(mgr)][CertFile].mode = 420

\* C17 as stated: after a successful Install the directory holds cert.pem,
\* key.pem and chain.pem.
C17_ChainFileStored ==
    InstallSucceeded => {"cert.pem", "key.pem", "chain.pem"} \subseteq FilesOf(mgr)

\* the depth of braces after line i of a file
RECURSIVE BraceDepth(_, _)
BraceDepth(lines, i) ==
    IF i = 0 THEN 0
    ELSE BraceDepth(lines, i - 1)
             + (IF Contains(lines[i], <<"{">>) THEN 1 ELSE 0)
             - (IF Contains(lines[i], <<"}">>) THEN 1 ELSE 0)

\* the lines at which a server block opens
ServerBlocks(lines) == {i \in 1..Len(lines) : HasPrefix(lines[i], <<"server", " ", "{">>)}

\* the last line of the server block that opens at line i: the line of its
\* closing brace, or the last line of the file when it is not closed
BlockEnd(lines, i) ==
    IF \E j \in (i + 1)..Len(lines) : BraceDepth(lines, j) = BraceDepth(lines, i - 1)
        THEN CHOOSE j \in (i + 1)..Len(lines) :
                 /\ BraceDepth(lines, j) = BraceDepth(lines, i - 1)
                 /\ \A k \in (i + 1)..(j - 1) :
                        BraceDepth(lines, k) # BraceDepth(lines, i - 1)
        ELSE Len(lines)

BlockLines(lines, i) == (i + 1)..BlockEnd(lines, i)

\* an ssl_certificate directive; a server_name directive that names the domain
IsSSLDirective(line) == HasPrefix(line, <<"ssl_certificate">>)
NamesDomain(line, domain) == line = <<"server_name", " ">> \o domain \o <<";">>

\* the block holds the ssl_certificate directive / the server_name directive
BlockHasSSL(lines, i) == \E k \in BlockLines(lines, i) : IsSSLDirective(lines[k])
BlockNamesDomain(lines, i, domain) ==
    \E k \in BlockLines(lines, i) : NamesDomain(lines[k], domain)

\* the two directives stand in two different server blocks of the file and
\* no server block holds both
SplitOverBlocks(lines, domain) ==
    /\ \E i, j \in ServerBlocks(lines) :
           /\ i # j
           /\ BlockHasSSL(lines, i)
           /\ BlockNamesDomain(lines, j, domain)
    /\ \A i \in ServerBlocks(lines) :
           ~(BlockHasSSL(lines, i) /\ BlockNamesDomain(lines, i, domain))

\* the block holds a line with the text ssl_certificate and a line with the
\* texts server_name and the domain, directive or not
BlockHasBothTexts(lines, i, domain) ==
    /\ \E k \in BlockLines(lines, i) : Contains(lines[k], <<"ssl_certificate">>)
    /\ \E k \in BlockLines(lines, i) :
           /\ Contains(lines[k], <<"server_name">>)
           /\ Contains(lines[k], domain)

\* C18 as stated: IsSSLEnabled returns false when in every config file the
\* ssl_certificate directive and the server_name directive naming the domain
\* stand in two different server blocks and no server block holds both.
C18_SplitDirectivesNotEnabled ==
    (/\ enabled # NoAnswer
     /\ \A f \in 1..Len(config.files) :
            SplitOverBlocks(config.files[f].lines, config.domain))
    => ~enabled.value

\* C18 as amended: IsSSLEnabled returns false when no server block of any
\* config file holds both a line with the text ssl_certificate and a line
\* with the texts server_name and the domain, where every line counts that
\* contains the texts, a comment included; so it returns false for a file
\* that has them in two different server blocks and in no single one.
C18_SplitTextsNotEnabled ==
    (/\ enabled # NoAnswer
     /\ \A f \in 1..Len(config.files) :
            \A i \in ServerBlocks(config.files[f].lines) :
                ~BlockHasBothTexts(config.files[f].lines, i, config.domain))
    => ~enabled.value

\* a file with the ssl_certificate line in its first server block and the
\* server_name line in its second was answered with false
C18_Witness ==
    /\ enabled # NoAnswer
    /\ ~enabled.value
    /\ Len(config.files) = 1
    /\ config.files[1].lines
           = <<LineServer, LineSSL, LineClose, LineServer, LineServerName, LineClose>>

\* the place of a stage in the order of Install; 0 when no Install runs
StageRank(p) ==
    CASE p = "generatePrivateKey" -> 2
      [] p = "createCSR" -> 3
      [] p = "obtainCertificate" -> 4
      [] p = "saveCertificate" -> 5
      [] p = "configureWebServer" -> 6
      [] OTHER -> 0

\* the error Install returns when the stage fails
StageError(p) ==
    CASE p = "generatePrivateKey" -> "GeneratePrivateKeyFailed"
      [] p = "createCSR" -> "CreateCSRFailed"
      [] p = "obtainCertificate" -> "ObtainCertificateFailed"
      [] p = "saveCertificate" -> "SaveCertificateFailed"
      [] p = "configureWebServer" -> "ConfigureWebServerFailed"
      [] OTHER -> "CreateCertDirFailed"

\* C19: within one Install the stages run in the order directory, key, CSR,
\* certificate, persist, web server: an Install begins with the directory
\* and goes on to the key stage, each stage is followed by the next one or
\* by the return of Install, none runs twice, a stage that is entered finds
\* what the earlier ones made, and Install returns success from the last
\* stage alone.
C19_StagesInOrder ==
    /\ [][/\ (StageRank(pc) = 0 /\ StageRank(pc') # 0) =>
                 /\ StageRank(pc') = 2
                 /\ calls'.install = 1
                 /\ DirExists(store', dirName(mgr'))
          /\ (StageRank(pc) # 0 /\ pc' # pc) =>
                 \/ StageRank(pc') = StageRank(pc) + 1
                 \/ StageRank(pc') = 0 /\ result' # "pending"
          /\ (StageRank(pc) # 0 /\ StageRank(pc') = 0 /\ result' = NoError) =>
                 StageRank(pc) = 6
          /\ StageRank(pc) # 0 => pc' # pc]_vars
    /\ [](/\ StageRank(pc) # 0 => result = "pending"
          /\ StageRank(pc) >= 3 =>
                 /\ privateKey # NoKey
                 /\ FileExists(store, dirName(mgr), KeyFile)
          /\ StageRank(pc) >= 4 => csr # NoCSR
          /\ StageRank(pc) \in 2..4 => calls.ca = 0
          /\ StageRank(pc) >= 5 => cert # NoCert /\ calls.ca = 1
          /\ StageRank(pc) >= 6 =>
                 /\ FileExists(store, dirName(mgr), CertFile)
                 /\ store[dirName(mgr)][CertFile].data = pemEncode("CERTIFICATE", cert))

\* an Install of the multi-domain manager went through all six stages and
\* returned success
C19_Witness ==
    /\ InstallSucceeded
    /\ mgr.kind = "multi"
    /\ Len(mgr.domains) > 1
    /\ calls.ca = 1
    /\ HasStoredCert(mgr)
    /\ StoredCert(mgr).notBefore = now

\* C20: a stage that fails ends Install in the same step with the error of
\* that stage; no stage runs until an operation is called again; the
\* certificate is asked for at most once per Install, and not at all when the
\* directory, the key or the CSR failed.
C20_FailureStopsInstall ==
    /\ [][/\ (StageRank(pc) # 0 /\ StageRank(pc') = 0 /\ result' # NoError) =>
                 /\ result' = StageError(pc)
                 /\ calls'.ca <= 1
          /\ (StageRank(pc) = 0 /\ result \notin {NoError, "none", "pending"}
                  /\ StageRank(pc') # 0) =>
                 op' \in {"Install", "Renew", "install"} /\ calls'.ca = 0]_vars
    /\ [](/\ calls.ca <= 1
          /\ result \in {"WildcardChallengeMismatch", "CreateCertDirFailed",
                         "GeneratePrivateKeyFailed", "CreateCSRFailed"}
                 => calls.ca = 0)

\* an Install failed at the CSR and the certificate was never asked for
C20_Witness ==
    /\ op = "Install"
    /\ pc = "idle"
    /\ result = "CreateCSRFailed"
    /\ calls.ca = 0
    /\ FileExists(store, dirName(mgr), KeyFile)

\* key.pem of the manager's directory holds the given key
KeyFileHolds(st, m, key) ==
    /\ FileExists(st, dirName(m), KeyFile)
    /\ st[dirName(m)][KeyFile].data =
           pemEncode("RSA PRIVATE KEY", MarshalPKCS1PrivateKey(key))

\* C21: key.pem holds the key of this Install from the moment the key stage
\* is over, that is before the CSR is made and before the certificate is
\* asked for; no later stage, failing or not, takes a file out of the
\* directory or touches key.pem, so an Install that fails at the CSR, at the
\* certificate, at persisting or at the web server leaves key.pem with the
\* key it generated, and a failure at the web server leaves the whole store
\* as it was.
C21_KeyWrittenFirstAndKept ==
    /\ [](StageRank(pc) >= 3 => KeyFileHolds(store, mgr, privateKey))
    /\ [][StageRank(pc) >= 3 =>
              /\ DirExists(store', dirName(mgr))
              /\ DOMAIN store[dirName(mgr)] \subseteq DOMAIN store'[dirName(mgr)]
              /\ store'[dirName(mgr)][KeyFile] = store[dirName(mgr)][KeyFile]
              /\ KeyFileHolds(store', mgr, privateKey)
              /\ calls.ca = 0 => StageRank(pc) \in {3, 4}
              /\ StageRank(pc) = 6 => store' = store]_vars

\* an Install into a directory without key.pem failed at persisting the
\* certificate, and key.pem is there
C21_Witness ==
    /\ op = "Install"
    /\ pc = "idle"
    /\ result = "SaveCertificateFailed"
    /\ KeyFile \notin atEntry.files
    /\ FileExists(store, dirName(mgr), KeyFile)
    /\ store[dirName(mgr)][KeyFile].data.kind = "pem"

\* the lines of a crontab
CronLines(tab) ==
    SubSeq(Split(crontabList(tab), "\n"), 1, LineCount(crontabList(tab)))

\* the line ends with the comment "# name": its trailing comment is the name
TaggedWith(line, taskName) == HasSuffix(line, <<" ">> \o cronTag(taskName))

\* C22: a successful Remove(name) on the crontab path takes out the lines
\* whose trailing comment is the task name and leaves every other line as
\* it was, the lines of a task whose name begins with the name and the lines
\* with "# name" elsewhere among them.
C22_RemoveTakesTaggedLinesOnly ==
    (cronOp.op = "Remove" /\ cronOp.err = NoError) =>
        CronLines(crontab) =
            SelectSeq(CronLines(cronOp.before),
                      LAMBDA line : ~TaggedWith(line, cronOp.taskName))

\* the lines of the crontab whose trailing comment is the task name
TaggedLines(tab, taskName) ==
    {i \in 1..Len(CronLines(tab)) : TaggedWith(CronLines(tab)[i], taskName)}

\* C29: on the crontab path the crontab never holds two lines tagged with
\* the same task name, whatever Install and Remove calls were made, and
\* IsInstalled(name) answers true exactly when a line tagged with the name
\* is there: true after a successful Install(name), false after a successful
\* Remove(name).
C29_OneLinePerTaskName ==
    /\ \A taskName \in TaskNames : Cardinality(TaggedLines(crontab, taskName)) <= 1
    /\ cronOp.op = "IsInstalled" =>
           cronOp.value = (TaggedLines(crontab, cronOp.taskName) # {})
    /\ (cronOp.op = "Install" /\ cronOp.err = NoError) =>
           isCronJobInstalledOf(crontab, cronOp.taskName)
    /\ (cronOp.op = "Remove" /\ cronOp.err = NoError) =>
           ~isCronJobInstalledOf(crontab, cronOp.taskName)

\* C30: List returns a task list or an error for every output of the task
\* query, the outputs with a row of exactly 4 or 5 fields among them; it
\* never ends with an index out of range.
C30_ListNeverOutOfRange ==
    listed.set => listed.result.kind \in {"tasks", "error"}

\* C24: after a successful Install the certificate in cert.pem is over the
\* public key of the private key in key.pem.
C24_CertificateBindsStoredKey ==
    InstallSucceeded =>
        /\ HasStoredCert(mgr)
        /\ KeyFileHolds(store, mgr, StoredCert(mgr).pub)

\* C25: an Install over the files of an Install that succeeded just before,
\* failing at the certificate or later, does not leave the key it generated
\* in key.pem next to a cert.pem that holds another certificate than the one
\* it obtained.
C25_FailedReissueKeepsPair ==
    [][(/\ atEntry.rerun
        /\ StageRank(pc) >= 4
        /\ StageRank(pc') = 0
        /\ result' # NoError)
           => ~(/\ KeyFileHolds(store', mgr, privateKey)
                /\ FileExists(store', dirName(mgr), CertFile)
                /\ store'[dirName(mgr)][CertFile].data.kind = "pem"
                /\ store'[dirName(mgr)][CertFile].data # pemEncode("CERTIFICATE", cert))]_vars

\* the errors of GetCertInfo
CertInfoErrors ==
    {"CertificateNotFound", "CertificateUnreadable", "CertificateParseError"}

\* C26: a Renew whose GetCertInfo fails returns that error in the same step
\* and never enters Install: the store is as it was, no directory, key or
\* certificate is made.
C26_RenewDoesNotBootstrap ==
    /\ [][(/\ pc = "idle"
           /\ op' = "Renew"
           /\ calls' # calls \/ result' # result \/ info' # info \/ pc' # pc
           /\ GetCertInfoOf(mgr, store, now).err # NoError)
              => /\ result' = GetCertInfoOf(mgr, store, now).err
                 /\ result' \in CertInfoErrors
                 /\ pc' = "idle"
                 /\ store' = store
                 /\ calls'.install = 0
                 /\ privateKey' = NoKey /\ cert' = NoCert]_vars
    /\ []((op = "Renew" /\ result \in CertInfoErrors) =>
              /\ pc = "idle"
              /\ calls.install = 0
              /\ GetCertInfoOf(mgr, store, now).err = result)

\* Renew was called for a domain without a directory and returned the error
\* of GetCertInfo; there is still no directory
C26_Witness ==
    /\ op = "Renew"
    /\ pc = "idle"
    /\ result = "CertificateNotFound"
    /\ ~DirExists(store, dirName(mgr))

\* both invocations have returned success
BothInstalled == \A p \in RaceProcs : race[p].pc = "returned" /\ race[p].result = NoError

\* C23: nothing makes one Install wait for another on the same domain: in
\* every state each invocation can take the step of the stage it stands at,
\* wherever the other one stands, and when both have returned success both
\* files are in the store.
C23_InstallsNeverWait ==
    /\ \A p \in RaceProcs :
           /\ race[p].pc = "idle" => ENABLED concurrentInstall(p)
           /\ race[p].pc = "generatePrivateKey" => ENABLED concurrentGeneratePrivateKey(p)
           /\ race[p].pc = "createCSR" => ENABLED concurrentCreateCSR(p)
           /\ race[p].pc = "obtainCertificate" => ENABLED concurrentObtainCertificate(p)
           /\ race[p].pc = "saveCertificate" => ENABLED concurrentSaveCertificate(p)
           /\ race[p].pc = "configureWebServer" => ENABLED concurrentConfigureWebServer(p)
    /\ BothInstalled =>
           /\ FileExists(store, dirName(RaceManager), KeyFile)
           /\ FileExists(store, dirName(RaceManager), CertFile)

\* both invocations returned success; key.pem is the one the first wrote and
\* cert.pem the one the second wrote
C23_Witness ==
    /\ BothInstalled
    /\ KeyFileHolds(store, RaceManager, raceKey(1))
    /\ HasStoredCert(RaceManager)
    /\ StoredCert(RaceManager).pub = raceSignerKey(2)

\* the path lies in the certificate root, the configuration directory or
\* the home directory
InsideRoots(path) ==
    \/ HasPrefix(path, CertDirPath)
    \/ HasPrefix(path, ConfigDirPath)
    \/ HasPrefix(path, HomeDirPath)

\* C27: whatever the archive holds, an Import creates or overwrites files
\* only inside the certificate root, the configuration directory or the
\* home directory: an entry under certs/ or config/ with ".." segments is
\* not written outside them.
C27_ImportStaysInsideRoots ==
    [][backupOp'.op = "Import" =>
           \A path \in DOMAIN otherFiles' :
               (path \notin DOMAIN otherFiles \/ otherFiles'[path] # otherFiles[path])
                   => InsideRoots(path)]_vars

\* C28: an Import of the archive a successful Export wrote, under the name
\* Export wrote it to, succeeds and puts every exported file of the store
\* back at its path with its content, for each format Export accepts and each
\* output name.
C28_ExportImportRoundTrip ==
    (/\ backupOp.op = "Import"
     /\ archive.exists
     /\ archive.exported.set
     /\ backupOp.file = archive.name)
        => /\ backupOp.err = NoError
           /\ \A dir \in DOMAIN archive.exported.store :
                  \A name \in DOMAIN archive.exported.store[dir] :
                      /\ FileExists(store, dir, name)
                      /\ store[dir][name].data = archive.exported.store[dir][name].data

====
